---- MODULE Spec2Model ----
(***************************************************************************)
(* V2TenantBootstrapService (rbac/management/tenant_service/v2.py).        *)
(*                                                                         *)
(* The committed database (tenants, workspaces, tenant mappings, groups,   *)
(* principals), the replicator's log of replicate() calls, the service     *)
(* instance's cached policy uuids and, per request thread, the running     *)
(* transaction.  Every public method runs under @transaction.atomic: its   *)
(* writes are pending until Commit and are dropped when it raises.  A      *)
(* replicate() call is recorded when it is made.  Reads see committed rows *)
(* (READ COMMITTED); an insert that collides with a committed unique key   *)
(* raises IntegrityError, one that collides with another transaction's     *)
(* pending insert waits for that transaction to end.                       *)
(***************************************************************************)
EXTENDS Integers, Sequences, FiniteSets, TLC

NULL == "NULL"
Orgs == {"o1", "o2"}
Procs == {"p1", "p2"}
UserDomain == "redhat"
EnvName == "stage"

\* Number of service calls made in one behaviour.
MaxOps == 2
\* The calls two retrying callers make between them.
MaxAttempts == 4
\* Workspace updates made after the service calls.
MaxUpdates == 1
\* Changes of the policy store and constructions of a new service instance.
MaxEnvSteps == 1

VARIABLES
    tenants,        \* committed Tenant rows
    workspaces,     \* committed Workspace rows
    mappings,       \* committed TenantMapping rows
    groups,         \* committed custom Group rows
    principals,     \* committed Principal rows (with their group memberships)
    sysPlatform,    \* public tenant's system platform_default group: "absent", "nopolicy" or its policy uuid
    sysAdmin,       \* public tenant's system admin_default group, likewise
    platform_cache, \* self._platform_default_policy_uuid
    admin_cache,    \* self._admin_default_policy_uuid
    events,         \* the replicate() calls made so far, in order
    calls,          \* one record per service call, in start order
    clock,          \* number of calls that have ended
    txn             \* per thread: the running call's frame

vars == <<tenants, workspaces, mappings, groups, principals, sysPlatform, sysAdmin,
          platform_cache, admin_cache, events, calls, clock, txn>>

----------------------------------------------------------------------------
(* Values *)

NoMapping ==
    [tenant |-> NULL, default_group_uuid |-> NULL, default_admin_group_uuid |-> NULL,
     default_role_binding_uuid |-> NULL, default_admin_role_binding_uuid |-> NULL]

NoWorkspace == [id |-> NULL, tenant |-> NULL, type |-> NULL, parent_id |-> NULL]

NoUser ==
    [username |-> NULL, org_id |-> NULL, user_id |-> NULL, is_active |-> FALSE,
     admin |-> FALSE, is_service_account |-> FALSE]

NoTenant == [id |-> NULL, org_id |-> NULL, tenant_name |-> NULL,
             prefetched |-> FALSE, platform_default_groups |-> <<>>]

\* A uuid generated during call k for tenant tid.
NewUuid(kind, k, tid) == kind \o "-" \o ToString(k) \o "-" \o tid

\* A Tenant object in memory: the row plus the attribute a Prefetch may have set.
TenantObj(row, prefetched, pdgs) ==
    [id |-> row.id, org_id |-> row.org_id, tenant_name |-> row.tenant_name,
     prefetched |-> prefetched, platform_default_groups |-> pdgs]

TenantRow(t) == [id |-> t.id, org_id |-> t.org_id, tenant_name |-> t.tenant_name]

BootstrappedTenant(tenant, mapping, default_workspace, root_workspace) ==
    [tenant |-> tenant, mapping |-> mapping,
     default_workspace |-> default_workspace, root_workspace |-> root_workspace]

create_relationship(resource_type, resource_id, subject_type, subject_id, relation, subject_relation) ==
    [rtype |-> resource_type, rid |-> resource_id, relation |-> relation,
     stype |-> subject_type, sid |-> subject_id, srel |-> subject_relation]

user_id_to_principal_resource_id(user_id) == UserDomain \o "/" \o user_id

relationship_to_user_id_for_group(group_uuid, user_id) ==
    create_relationship("rbac/group", group_uuid, "rbac/principal",
                        user_id_to_principal_resource_id(user_id), "member", NULL)

relationship_to_principal(group_uuid, principal) ==
    relationship_to_user_id_for_group(group_uuid, principal.user_id)

\* call: the service call that made the replicate() call.
ReplicationEvent(event_type, k, info, add, remove) ==
    [event_type |-> event_type, call |-> k, info |-> info, partition_key |-> EnvName,
     add |-> add, remove |-> remove]

----------------------------------------------------------------------------
(* Tuple builders and policy resolution *)

\* As _built_in_workspaces, with the default workspace given no parent.
_built_in_workspaces_no_parent(tenant, k) ==
    LET root == [id |-> NewUuid("root", k, tenant.id), tenant |-> tenant.id,
                 type |-> "ROOT", parent_id |-> NULL]
        default == [id |-> NewUuid("default", k, tenant.id), tenant |-> tenant.id,
                    type |-> "DEFAULT", parent_id |-> NULL]
        tenant_id == UserDomain \o "/" \o tenant.org_id
    IN  [root |-> root, default |-> default,
         relationships |->
            << create_relationship("rbac/workspace", default.id, "rbac/workspace", root.id, "parent", NULL),
               create_relationship("rbac/workspace", root.id, "rbac/tenant", tenant_id, "parent", NULL),
               create_relationship("rbac/tenant", tenant_id, "rbac/platform", EnvName, "platform", NULL) >>]

\* As _built_in_workspaces, with the first tuple making the default workspace
\* the parent of the root workspace.
_built_in_workspaces_parent_reversed(tenant, k) ==
    LET root == [id |-> NewUuid("root", k, tenant.id), tenant |-> tenant.id,
                 type |-> "ROOT", parent_id |-> NULL]
        default == [id |-> NewUuid("default", k, tenant.id), tenant |-> tenant.id,
                    type |-> "DEFAULT", parent_id |-> root.id]
        tenant_id == UserDomain \o "/" \o tenant.org_id
    IN  [root |-> root, default |-> default,
         relationships |->
            << create_relationship("rbac/workspace", root.id, "rbac/workspace", default.id, "parent", NULL),
               create_relationship("rbac/workspace", root.id, "rbac/tenant", tenant_id, "parent", NULL),
               create_relationship("rbac/tenant", tenant_id, "rbac/platform", EnvName, "platform", NULL) >>]

_built_in_workspaces(tenant, k) ==
    LET root == [id |-> NewUuid("root", k, tenant.id), tenant |-> tenant.id,
                 type |-> "ROOT", parent_id |-> NULL]
        default == [id |-> NewUuid("default", k, tenant.id), tenant |-> tenant.id,
                    type |-> "DEFAULT", parent_id |-> root.id]
        tenant_id == UserDomain \o "/" \o tenant.org_id
    IN  [root |-> root, default |-> default,
         relationships |->
            << create_relationship("rbac/workspace", default.id, "rbac/workspace", root.id, "parent", NULL),
               create_relationship("rbac/workspace", root.id, "rbac/tenant", tenant_id, "parent", NULL),
               create_relationship("rbac/tenant", tenant_id, "rbac/platform", EnvName, "platform", NULL) >>]

\* As _create_default_relation_tuples, without the binding's subject tuple.
_create_default_relation_tuples_no_subject(default_workspace_id, role_binding_uuid, default_role_uuid, default_group_uuid) ==
    << create_relationship("rbac/workspace", default_workspace_id, "rbac/role_binding", role_binding_uuid, "binding", NULL),
       create_relationship("rbac/role_binding", role_binding_uuid, "rbac/role", default_role_uuid, "role", NULL) >>

_create_default_relation_tuples(default_workspace_id, role_binding_uuid, default_role_uuid, default_group_uuid) ==
    << create_relationship("rbac/workspace", default_workspace_id, "rbac/role_binding", role_binding_uuid, "binding", NULL),
       create_relationship("rbac/role_binding", role_binding_uuid, "rbac/role", default_role_uuid, "role", NULL),
       create_relationship("rbac/role_binding", role_binding_uuid, "rbac/group", default_group_uuid, "subject", "member") >>

\* As _get_platform_default_policy_uuid, looking the policy up on every call.
_get_platform_default_policy_uuid_every_call(cache, grp) ==
    IF grp = "absent" THEN [exc |-> "none", val |-> NULL]
    ELSE IF grp = "nopolicy" THEN [exc |-> "DoesNotExist", val |-> NULL]
    ELSE [exc |-> "none", val |-> grp]

\* cache: the instance attribute; grp: the system group row's state.
\* Group.DoesNotExist is caught and gives None; .policies.get() on a group
\* without a policy raises the policy model's DoesNotExist, which is not caught.
_get_platform_default_policy_uuid(cache, grp) ==
    IF cache # NULL THEN [exc |-> "none", val |-> cache]
    ELSE IF grp = "absent" THEN [exc |-> "none", val |-> NULL]
    ELSE IF grp = "nopolicy" THEN [exc |-> "DoesNotExist", val |-> NULL]
    ELSE [exc |-> "none", val |-> grp]

_get_admin_default_policy_uuid(cache, grp) ==
    IF cache # NULL THEN [exc |-> "none", val |-> cache]
    ELSE IF grp = "absent" THEN [exc |-> "none", val |-> NULL]
    ELSE IF grp = "nopolicy" THEN [exc |-> "DoesNotExist", val |-> NULL]
    ELSE [exc |-> "none", val |-> grp]

\* TenantMapping(tenant=tenant [, default_group_uuid=...]) with uuid defaults.
TenantMapping(tenant, k, default_group_uuid) ==
    [tenant |-> tenant.id,
     default_group_uuid |->
        IF default_group_uuid = NULL THEN NewUuid("dg", k, tenant.id) ELSE default_group_uuid,
     default_admin_group_uuid |-> NewUuid("dag", k, tenant.id),
     default_role_binding_uuid |-> NewUuid("drb", k, tenant.id),
     default_admin_role_binding_uuid |-> NewUuid("darb", k, tenant.id)]

\* hasattr(tenant, "platform_default_groups") and tenant.platform_default_groups
HasCustomDefaultGroup(tenant) ==
    tenant.prefetched /\ tenant.platform_default_groups # <<>>

\* As _bootstrap_default_access, with the outcome of a lookup that found no
\* system group kept on the instance like a resolved id.
_bootstrap_default_access_caches_absence(tenant, mapping, default_workspace_id, pc, ac) ==
    LET p == _get_platform_default_policy_uuid(pc, sysPlatform)
        a == IF p.exc = "none" THEN _get_admin_default_policy_uuid(ac, sysAdmin)
             ELSE [exc |-> p.exc, val |-> NULL]
        user_tuples ==
            IF p.val \notin {NULL, "absent"} /\ ~HasCustomDefaultGroup(tenant)
            THEN _create_default_relation_tuples(default_workspace_id,
                     mapping.default_role_binding_uuid, p.val, mapping.default_group_uuid)
            ELSE <<>>
        admin_tuples ==
            IF a.val \notin {NULL, "absent"}
            THEN _create_default_relation_tuples(default_workspace_id,
                     mapping.default_admin_role_binding_uuid, a.val, mapping.default_admin_group_uuid)
            ELSE <<>>
    IN  [exc |-> a.exc,
         tuples |-> IF a.exc = "none" THEN user_tuples \o admin_tuples ELSE <<>>,
         pc |-> IF p.val # NULL THEN p.val ELSE IF p.exc = "none" THEN "absent" ELSE pc,
         ac |-> IF a.val # NULL THEN a.val ELSE IF a.exc = "none" THEN "absent" ELSE ac]

\* pc, ac: the two cached uuids on entry.  Returns the tuples, the exception
\* raised (if any) and the cached uuids on exit.
_bootstrap_default_access(tenant, mapping, default_workspace_id, pc, ac) ==
    LET p == _get_platform_default_policy_uuid(pc, sysPlatform)
        a == IF p.exc = "none" THEN _get_admin_default_policy_uuid(ac, sysAdmin)
             ELSE [exc |-> p.exc, val |-> NULL]
        user_tuples ==
            IF p.val # NULL /\ ~HasCustomDefaultGroup(tenant)
            THEN _create_default_relation_tuples(default_workspace_id,
                     mapping.default_role_binding_uuid, p.val, mapping.default_group_uuid)
            ELSE <<>>
        admin_tuples ==
            IF a.val # NULL
            THEN _create_default_relation_tuples(default_workspace_id,
                     mapping.default_admin_role_binding_uuid, a.val, mapping.default_admin_group_uuid)
            ELSE <<>>
    IN  [exc |-> a.exc,
         tuples |-> IF a.exc = "none" THEN user_tuples \o admin_tuples ELSE <<>>,
         pc |-> IF p.val # NULL THEN p.val ELSE pc,
         ac |-> IF a.val # NULL THEN a.val ELSE ac]

\* As _default_group_tuple_edits, with the admin-group edge added for everyone.
_default_group_tuple_edits_all_admin(user, mapping) ==
    IF user.user_id = NULL
    THEN [exc |-> "ValueError", add |-> <<>>, remove |-> <<>>]
    ELSE [exc |-> "none",
          add |-> <<relationship_to_user_id_for_group(mapping.default_group_uuid, user.user_id),
                    relationship_to_user_id_for_group(mapping.default_admin_group_uuid, user.user_id)>>,
          remove |-> <<>>]

\* add default-group edge always; admin-group edge added for an admin, removed otherwise.
_default_group_tuple_edits(user, mapping) ==
    IF user.user_id = NULL
    THEN [exc |-> "ValueError", add |-> <<>>, remove |-> <<>>]
    ELSE [exc |-> "none",
          add |-> <<relationship_to_user_id_for_group(mapping.default_group_uuid, user.user_id)>>
                  \o (IF user.admin
                      THEN <<relationship_to_user_id_for_group(mapping.default_admin_group_uuid, user.user_id)>>
                      ELSE <<>>),
          remove |-> IF user.admin THEN <<>>
                     ELSE <<relationship_to_user_id_for_group(mapping.default_admin_group_uuid, user.user_id)>>]

----------------------------------------------------------------------------
(* Frames: the local state of one running call *)

NoBootstrapped == BootstrappedTenant(NoTenant, NoMapping, NoWorkspace, NoWorkspace)

Idle ==
    [stage |-> "idle", proc |-> NULL, call |-> 0, op |-> NULL, tenant |-> NoTenant,
     user |-> NoUser, users |-> <<>>, upsert |-> FALSE, supplied |-> NoBootstrapped,
     new_rows |-> <<>>, bt |-> <<>>, boots |-> <<>>, wss |-> <<>>, maps |-> <<>>,
     rels |-> <<>>, pt |-> {}, pw |-> {}, pm |-> {}, pdel |-> {}, pput |-> {}, pg |-> {},
     waiting |-> FALSE, tried |-> {}, exc |-> "none", ret |-> NoBootstrapped]

RECURSIVE SetToSeq(_)
SetToSeq(S) ==
    IF S = {} THEN <<>>
    ELSE LET x == CHOOSE y \in S : TRUE IN <<x>> \o SetToSeq(S \ {x})

Range(s) == {s[i] : i \in 1..Len(s)}

OrgOrder == <<"o1", "o2">>

Fail(X, exc) == [X EXCEPT !.f.stage = "abort", !.f.exc = exc]

\* Rows and pending inserts seen by the transaction of thread p.
TenantByOrg(org) == {t \in tenants : t.org_id = org}
MappingOf(tid) == {m \in mappings : m.tenant = tid}
\* The transactions whose pending inserts frame f's insert has to wait for: on
\* its first attempt all others, afterwards those not themselves waiting (they
\* came later and wait for f).
Ahead(f) == {q \in Procs \ {f.proc} : f.waiting => ~txn[q].waiting}
OtherPendingTenantOrgs(f) == UNION {{t.org_id : t \in txn[q].pt} : q \in Ahead(f)}
OtherPendingMappingTenants(f) == UNION {{m.tenant : m \in txn[q].pm} : q \in Ahead(f)}

\* Prefetch("group_set", Group.objects.filter(platform_default=True), to_attr="platform_default_groups")
PlatformDefaultGroups(tid) ==
    SetToSeq({g.uuid : g \in {h \in groups : h.tenant = tid /\ h.platform_default}})

\* As MappingOrBootstrap, without the fast path.
MappingOrBootstrap_always_bootstraps(X, tenant) ==
    [X EXCEPT !.f.stage = "insert", !.f.bt = <<tenant>>]

\* TenantMapping.objects.get(tenant=tenant) in bootstrap_tenant and
\* _get_or_bootstrap_tenant: the fast path, or on to _bootstrap_tenant.
MappingOrBootstrap(X, tenant) ==
    IF MappingOf(tenant.id) # {}
    THEN [X EXCEPT !.f.stage = "user",
                   !.f.boots = <<BootstrappedTenant(tenant, CHOOSE m \in MappingOf(tenant.id) : TRUE,
                                                    NoWorkspace, NoWorkspace)>>]
    ELSE [X EXCEPT !.f.stage = "insert", !.f.bt = <<tenant>>]

\* Tenant.objects.get_or_create(org_id=..., defaults={..., "tenant_name": f"org{org_id}"})
_get_or_bootstrap_tenant(X, org_id) ==
    LET row == [id |-> org_id, org_id |-> org_id, tenant_name |-> "org" \o org_id] IN
    IF TenantByOrg(org_id) # {}
    THEN MappingOrBootstrap([X EXCEPT !.f.pt = {}, !.f.waiting = FALSE],
                            TenantObj(CHOOSE t \in TenantByOrg(org_id) : TRUE, FALSE, <<>>))
    ELSE IF org_id \in OtherPendingTenantOrgs(X.f)
    THEN [X EXCEPT !.f.pt = {row}, !.f.waiting = TRUE]   \* the insert waits
    ELSE [X EXCEPT !.f.pt = {row}, !.f.waiting = FALSE, !.f.stage = "insert",
                   !.f.bt = <<TenantObj(row, FALSE, <<>>)>>]

\* As BulkOrgIds, with the org ids of the inactive users too.
BulkOrgIds_all_users(users) ==
    {users[i].org_id : i \in {j \in 1..Len(users) : users[j].org_id # NULL}}

\* import_bulk_users lines 119-126: the org ids of the active users that have one.
BulkOrgIds(users) ==
    {users[i].org_id : i \in {j \in 1..Len(users) : users[j].is_active /\ users[j].org_id # NULL}}

\* _get_or_bootstrap_tenants up to bulk_create: existing tenants with their
\* mapping and prefetched platform-default groups; the rest are new.
_get_or_bootstrap_tenants(X, org_ids) ==
    LET existing == {t \in tenants : t.org_id \in org_ids}
        have(o) == \E t \in existing : t.org_id = o
        row(o) == CHOOSE t \in existing : t.org_id = o
        obj(o) == TenantObj(row(o), TRUE, PlatformDefaultGroups(row(o).id))
        mapped(o) == have(o) /\ MappingOf(row(o).id) # {}
        pre == SelectSeq(OrgOrder, LAMBDA o : o \in org_ids /\ mapped(o))
        todo == SelectSeq(OrgOrder, LAMBDA o : o \in org_ids /\ have(o) /\ ~mapped(o))
        new == SelectSeq(OrgOrder, LAMBDA o : o \in org_ids /\ ~have(o))
    IN  [X EXCEPT
            !.f.boots = [i \in 1..Len(pre) |->
                BootstrappedTenant(obj(pre[i]), CHOOSE m \in MappingOf(row(pre[i]).id) : TRUE,
                                   NoWorkspace, NoWorkspace)],
            !.f.bt = [i \in 1..Len(todo) |-> obj(todo[i])],
            !.f.new_rows = [i \in 1..Len(new) |->
                [id |-> new[i], org_id |-> new[i], tenant_name |-> "org" \o new[i]]],
            !.f.stage = IF new = <<>> THEN "insert" ELSE "tenant_insert"]

\* As Tenancy, with new_bootstrapped_tenant fetching the Tenant of the org id
\* when there is one.
Tenancy_new_tenant_get_or_create(X) ==
    LET f == X.f IN
    CASE f.op = "new_bootstrapped_tenant" -> _get_or_bootstrap_tenant(X, f.tenant.org_id)
      [] f.op \in {"bootstrap_tenant", "create_default_group"} -> MappingOrBootstrap(X, f.tenant)
      [] f.op = "update_user" ->
            IF f.user.org_id = NULL THEN Fail(X, "ValueError")
            ELSE IF ~f.user.is_active THEN [X EXCEPT !.f.stage = "user"]
            ELSE IF f.supplied # NoBootstrapped
            THEN [X EXCEPT !.f.stage = "user", !.f.boots = <<f.supplied>>]
            ELSE _get_or_bootstrap_tenant(X, f.user.org_id)
      [] OTHER -> _get_or_bootstrap_tenants(X, BulkOrgIds(f.users))

\* As Tenancy, with update_user bootstrapping the tenant before it looks at
\* is_active.
Tenancy_bootstraps_before_disable(X) ==
    LET f == X.f IN
    CASE f.op = "new_bootstrapped_tenant" ->
            [X EXCEPT !.f.stage = "tenant_insert",
                      !.f.new_rows = <<[id |-> f.tenant.org_id, org_id |-> f.tenant.org_id,
                                        tenant_name |-> ""]>>]
      [] f.op \in {"bootstrap_tenant", "create_default_group"} -> MappingOrBootstrap(X, f.tenant)
      [] f.op = "update_user" ->
            IF f.user.org_id = NULL THEN Fail(X, "ValueError")
            ELSE IF f.supplied # NoBootstrapped
            THEN [X EXCEPT !.f.stage = "user", !.f.boots = <<f.supplied>>]
            ELSE _get_or_bootstrap_tenant(X, f.user.org_id)
      [] OTHER -> _get_or_bootstrap_tenants(X, BulkOrgIds(f.users))

\* The first stage of each public method: up to the first insert.
Tenancy(X) ==
    LET f == X.f IN
    CASE f.op = "new_bootstrapped_tenant" ->
            \* Tenant.objects.create(org_id=org_id, account_id=account_number):
            \* tenant_name is not given and keeps the field's empty default
            [X EXCEPT !.f.stage = "tenant_insert",
                      !.f.new_rows = <<[id |-> f.tenant.org_id, org_id |-> f.tenant.org_id,
                                        tenant_name |-> ""]>>]
      [] f.op \in {"bootstrap_tenant", "create_default_group"} -> MappingOrBootstrap(X, f.tenant)
      [] f.op = "update_user" ->
            IF f.user.org_id = NULL THEN Fail(X, "ValueError")
            ELSE IF ~f.user.is_active THEN [X EXCEPT !.f.stage = "user"]
            ELSE IF f.supplied # NoBootstrapped
            THEN [X EXCEPT !.f.stage = "user", !.f.boots = <<f.supplied>>]
            ELSE _get_or_bootstrap_tenant(X, f.user.org_id)
      [] OTHER -> _get_or_bootstrap_tenants(X, BulkOrgIds(f.users))

\* Tenant.org_id is unique: a committed row with one of these org ids refuses
\* the insert.
TenantOrgConflict(orgs) == \E o \in orgs : TenantByOrg(o) # {}

\* A tenant has at most one TenantMapping (the reverse accessor
\* tenant.tenant_mapping is one-to-one): a committed mapping of one of these
\* tenants refuses the insert.
MappingTenantConflict(tids) == \E t \in tids : MappingOf(t) # {}

\* Tenant.objects.create / bulk_create under the unique org_id.
TenantInsert(X) ==
    LET f == X.f
        orgs == {f.new_rows[i].org_id : i \in 1..Len(f.new_rows)}
    IN  IF TenantOrgConflict(orgs) THEN Fail(X, "IntegrityError")
        ELSE IF orgs \cap OtherPendingTenantOrgs(f) # {}
        THEN [X EXCEPT !.f.pt = Range(f.new_rows), !.f.waiting = TRUE]   \* the insert waits
        ELSE [X EXCEPT !.f.pt = Range(f.new_rows), !.f.waiting = FALSE, !.f.stage = "insert",
                       !.f.bt = f.bt \o [i \in 1..Len(f.new_rows) |->
                                           TenantObj(f.new_rows[i], FALSE, <<>>)]]

----------------------------------------------------------------------------
(* Bootstrap: workspaces, mapping, default access, the bootstrap event *)

IsBulk(f) == f.op = "import_bulk_users"

\* _bootstrap_tenant refuses the public tenant; _bootstrap_tenants has no such test.
RefusesPublic(f, tenant) == ~IsBulk(f) /\ tenant.tenant_name = "public"

\* As MappingFor, with a generated default group uuid on every path.
MappingFor_always_fresh(f, tenant) ==
    TenantMapping(tenant, f.call, NULL)

\* The mapping each path constructs: _bootstrap_tenants passes the prefetched
\* custom default group's uuid, _bootstrap_tenant passes the tenant only.
MappingFor(f, tenant) ==
    IF IsBulk(f) /\ HasCustomDefaultGroup(tenant)
    THEN TenantMapping(tenant, f.call, tenant.platform_default_groups[1])
    ELSE TenantMapping(tenant, f.call, NULL)

RECURSIVE Concat(_)
Concat(ss) == IF ss = <<>> THEN <<>> ELSE Head(ss) \o Concat(Tail(ss))

\* As InsertStage, with no uniqueness on the mapping's tenant.
InsertStage_not_unique(X) ==
    LET f == X.f
        n == Len(f.bt)
        built == [i \in 1..n |-> _built_in_workspaces(f.bt[i], f.call)]
        maps == [i \in 1..n |-> MappingFor(f, f.bt[i])]
    IN  IF \E i \in 1..n : RefusesPublic(f, f.bt[i]) THEN Fail(X, "ValueError")
        ELSE [X EXCEPT !.f.tried = {f.bt[i].id : i \in 1..n},
                       !.f.stage = "access",
                       !.f.wss = built,
                       !.f.maps = maps,
                       !.f.rels = Concat([i \in 1..n |-> built[i].relationships]),
                       !.f.pw = UNION {{built[i].root, built[i].default} : i \in 1..n},
                       !.f.pm = Range(maps)]

\* As InsertStage, with the mapping fetched when one exists instead of inserted.
InsertStage_get_or_create(X) ==
    LET f == X.f
        n == Len(f.bt)
        built == [i \in 1..n |-> _built_in_workspaces(f.bt[i], f.call)]
        maps == [i \in 1..n |->
                    IF MappingOf(f.bt[i].id) # {} THEN CHOOSE m \in MappingOf(f.bt[i].id) : TRUE
                    ELSE MappingFor(f, f.bt[i])]
    IN  IF \E i \in 1..n : RefusesPublic(f, f.bt[i]) THEN Fail(X, "ValueError")
        ELSE [X EXCEPT !.f.tried = {f.bt[i].id : i \in 1..n},
                       !.f.stage = "access",
                       !.f.wss = built,
                       !.f.maps = maps,
                       !.f.rels = Concat([i \in 1..n |-> built[i].relationships]),
                       !.f.pw = UNION {{built[i].root, built[i].default} : i \in 1..n},
                       !.f.pm = Range(maps)]

\* Workspaces saved, then TenantMapping.objects.create / bulk_create under the
\* one-mapping-per-tenant uniqueness.
InsertStage(X) ==
    LET f == X.f
        n == Len(f.bt)
        built == [i \in 1..n |-> _built_in_workspaces(f.bt[i], f.call)]
        maps == [i \in 1..n |-> MappingFor(f, f.bt[i])]
        tids == {f.bt[i].id : i \in 1..n}
        X1 == [X EXCEPT !.f.tried = tids, !.f.pw = UNION {{built[i].root, built[i].default} : i \in 1..n}]
    IN  IF \E i \in 1..n : RefusesPublic(f, f.bt[i]) THEN Fail(X, "ValueError")
        ELSE IF MappingTenantConflict(tids) THEN Fail(X1, "IntegrityError")
        ELSE IF tids \cap OtherPendingMappingTenants(f) # {}
        THEN [X1 EXCEPT !.f.pm = Range(maps), !.f.waiting = TRUE]   \* the insert waits
        ELSE [X1 EXCEPT !.f.stage = "access",
                       !.f.waiting = FALSE,
                       !.f.wss = built,
                       !.f.maps = maps,
                       !.f.rels = Concat([i \in 1..n |-> built[i].relationships]),
                       !.f.pm = Range(maps)]

\* The calls of _bootstrap_default_access for tenants i..n, in order, threading
\* the cached uuids; stops at the first exception.
RECURSIVE DefaultAccessFrom(_, _, _, _, _)
DefaultAccessFrom(f, i, pc, ac, acc) ==
    IF i > Len(f.bt) THEN [exc |-> "none", tuples |-> acc, pc |-> pc, ac |-> ac]
    ELSE LET r == _bootstrap_default_access(f.bt[i], f.maps[i], f.wss[i].default.id, pc, ac)
         IN  IF r.exc # "none" THEN [exc |-> r.exc, tuples |-> <<>>, pc |-> r.pc, ac |-> r.ac]
             ELSE DefaultAccessFrom(f, i + 1, r.pc, r.ac, acc \o r.tuples)

BootstrapEventType(f) == IF IsBulk(f) THEN "BULK_BOOTSTRAP_TENANT" ELSE "BOOTSTRAP_TENANT"

BootstrapInfo(f) ==
    IF IsBulk(f)
    THEN [num_tenants |-> Len(f.bt),
          first_org_id |-> IF f.bt # <<>> THEN f.bt[1].org_id ELSE NULL]
    ELSE [org_id |-> f.bt[1].org_id, default_workspace_id |-> f.wss[1].default.id]

\* The BootstrappedTenant each path returns for a tenant it bootstrapped.
BootstrappedFor(f, i) ==
    IF IsBulk(f) THEN BootstrappedTenant(f.bt[i], f.maps[i], NoWorkspace, NoWorkspace)
    ELSE BootstrappedTenant(f.bt[i], f.maps[i], f.wss[i].default, f.wss[i].root)

\* As AccessStage, with the hierarchy tuples and the default-access tuples
\* replicated in two events.
AccessStage_two_events(X) ==
    LET f == X.f
        r == DefaultAccessFrom(f, 1, X.e.pc, X.e.ac, <<>>)
        X1 == [X EXCEPT !.e.pc = r.pc, !.e.ac = r.ac]
    IN  IF r.exc # "none" THEN Fail(X1, r.exc)
        ELSE [X1 EXCEPT
                !.e.events = X.e.events \o
                    << ReplicationEvent(BootstrapEventType(f), f.call, BootstrapInfo(f), f.rels, <<>>),
                       ReplicationEvent(BootstrapEventType(f), f.call, BootstrapInfo(f), r.tuples, <<>>) >>,
                !.f.boots = f.boots \o [i \in 1..Len(f.bt) |-> BootstrappedFor(f, i)],
                !.f.stage = "user"]

\* As AccessStage, without the replicate() call.
AccessStage_no_event(X) ==
    LET f == X.f
        r == DefaultAccessFrom(f, 1, X.e.pc, X.e.ac, <<>>)
        X1 == [X EXCEPT !.e.pc = r.pc, !.e.ac = r.ac]
    IN  IF r.exc # "none" THEN Fail(X1, r.exc)
        ELSE [X1 EXCEPT
                !.f.boots = f.boots \o [i \in 1..Len(f.bt) |-> BootstrappedFor(f, i)],
                !.f.stage = "user"]

\* Default access for each tenant, then one replicate() call.
AccessStage(X) ==
    LET f == X.f
        r == DefaultAccessFrom(f, 1, X.e.pc, X.e.ac, <<>>)
        X1 == [X EXCEPT !.e.pc = r.pc, !.e.ac = r.ac]
    IN  IF r.exc # "none" THEN Fail(X1, r.exc)
        ELSE [X1 EXCEPT
                !.e.events = Append(X.e.events,
                    ReplicationEvent(BootstrapEventType(f), f.call, BootstrapInfo(f),
                                     f.rels \o r.tuples, <<>>)),
                !.f.boots = f.boots \o [i \in 1..Len(f.bt) |-> BootstrappedFor(f, i)],
                !.f.stage = "user"]

----------------------------------------------------------------------------
(* User reconciliation *)

TenantOrg(tid) == (CHOOSE t \in tenants : t.id = tid).org_id

\* Principal.objects.filter(username=..., tenant__org_id=...)
PrincipalsOf(org_id, username) ==
    {pr \in principals : pr.username = username /\ TenantOrg(pr.tenant) = org_id}

PKey(pr) == <<pr.tenant, pr.username>>

\* The rows _ensure_principal_with_user_id_in_tenant writes: with upsert a
\* missing Principal is created; an existing one gets the user's user_id when
\* it differs.
_ensure_principal_with_user_id_in_tenant(user, tenant, upsert) ==
    LET found == {pr \in principals : pr.tenant = tenant.id /\ pr.username = user.username}
    IN  IF found # {}
        THEN {[pr EXCEPT !.user_id = user.user_id] : pr \in {q \in found : q.user_id # user.user_id}}
        ELSE IF upsert
        THEN {[tenant |-> tenant.id, username |-> user.username, user_id |-> user.user_id, group |-> {}]}
        ELSE {}

\* As UpdateActiveUser, with the Principal ensured for service accounts too.
UpdateActiveUser_principal_for_service_account(X) ==
    LET f == X.f
        bootstrapped_tenant == f.boots[1]
        mapping == bootstrapped_tenant.mapping
        edits == IF f.user.is_service_account
                 THEN [exc |-> "none", add |-> <<>>, remove |-> <<>>]
                 ELSE _default_group_tuple_edits(f.user, mapping)
    IN  IF mapping = NoMapping THEN Fail(X, "ValueError")
        ELSE IF f.user.user_id = NULL THEN Fail(X, "ValueError")
        ELSE [X EXCEPT
                !.f.pput = _ensure_principal_with_user_id_in_tenant(
                               f.user, bootstrapped_tenant.tenant, f.upsert),
                !.e.events = Append(X.e.events,
                    ReplicationEvent("EXTERNAL_USER_UPDATE", f.call, [user_id |-> f.user.user_id],
                                     edits.add, edits.remove)),
                !.f.ret = bootstrapped_tenant,
                !.f.stage = "commit"]

\* As UpdateActiveUser, without the test for a missing mapping.
UpdateActiveUser_no_mapping_check(X) ==
    LET f == X.f
        bootstrapped_tenant == f.boots[1]
        mapping == bootstrapped_tenant.mapping
        edits == IF f.user.is_service_account
                 THEN [exc |-> "none", add |-> <<>>, remove |-> <<>>]
                 ELSE _default_group_tuple_edits(f.user, mapping)
    IN  IF f.user.user_id = NULL THEN Fail(X, "ValueError")
        ELSE [X EXCEPT
                !.f.pput = IF f.user.is_service_account THEN {}
                           ELSE _ensure_principal_with_user_id_in_tenant(
                                    f.user, bootstrapped_tenant.tenant, f.upsert),
                !.e.events = Append(X.e.events,
                    ReplicationEvent("EXTERNAL_USER_UPDATE", f.call, [user_id |-> f.user.user_id],
                                     edits.add, edits.remove)),
                !.f.ret = bootstrapped_tenant,
                !.f.stage = "commit"]

\* update_user lines 78-106, after the tenant is known.
UpdateActiveUser(X) ==
    LET f == X.f
        bootstrapped_tenant == f.boots[1]
        mapping == bootstrapped_tenant.mapping
        edits == IF f.user.is_service_account
                 THEN [exc |-> "none", add |-> <<>>, remove |-> <<>>]
                 ELSE _default_group_tuple_edits(f.user, mapping)
    IN  IF mapping = NoMapping THEN Fail(X, "ValueError")
        ELSE IF f.user.user_id = NULL THEN Fail(X, "ValueError")
        ELSE [X EXCEPT
                !.f.pput = IF f.user.is_service_account THEN {}
                           ELSE _ensure_principal_with_user_id_in_tenant(
                                    f.user, bootstrapped_tenant.tenant, f.upsert),
                !.e.events = Append(X.e.events,
                    ReplicationEvent("EXTERNAL_USER_UPDATE", f.call, [user_id |-> f.user.user_id],
                                     edits.add, edits.remove)),
                !.f.ret = bootstrapped_tenant,
                !.f.stage = "commit"]

\* As _disable_user_in_tenant, without the test of user_id.
_disable_user_in_tenant_no_user_id_check(X) ==
    LET f == X.f
        user == f.user
        found_mappings == {m \in mappings : TenantOrg(m.tenant) = user.org_id}
        mapping_tuples ==
            IF found_mappings = {} THEN <<>>
            ELSE <<relationship_to_user_id_for_group(
                      (CHOOSE m \in found_mappings : TRUE).default_group_uuid, user.user_id)>>
        found == PrincipalsOf(user.org_id, user.username)
        principal == CHOOSE pr \in found : TRUE
        group_tuples ==
            IF found = {} THEN <<>>
            ELSE LET gs == SetToSeq(principal.group)
                 IN  [i \in 1..Len(gs) |-> relationship_to_principal(gs[i], principal)]
    IN  [X EXCEPT
            !.f.pdel = {PKey(pr) : pr \in found},
            !.e.events = Append(X.e.events,
                ReplicationEvent("EXTERNAL_USER_UPDATE", f.call, [user_id |-> user.user_id],
                                 <<>>, mapping_tuples \o group_tuples)),
            !.f.stage = "commit"]

\* As _disable_user_in_tenant, with the mapping looked at only when a Principal is found.
_disable_user_in_tenant_mapping_after_principal(X) ==
    LET f == X.f
        user == f.user
        found_mappings == {m \in mappings : TenantOrg(m.tenant) = user.org_id}
        found == PrincipalsOf(user.org_id, user.username)
        mapping_tuples ==
            IF found_mappings = {} \/ found = {} THEN <<>>
            ELSE <<relationship_to_user_id_for_group(
                      (CHOOSE m \in found_mappings : TRUE).default_group_uuid, user.user_id)>>
        principal == CHOOSE pr \in found : TRUE
        group_tuples ==
            IF found = {} THEN <<>>
            ELSE LET gs == SetToSeq(principal.group)
                 IN  [i \in 1..Len(gs) |-> relationship_to_principal(gs[i], principal)]
    IN  IF user.user_id = NULL THEN Fail(X, "ValueError")
        ELSE [X EXCEPT
                !.f.pdel = {PKey(pr) : pr \in found},
                !.e.events = Append(X.e.events,
                    ReplicationEvent("EXTERNAL_USER_UPDATE", f.call, [user_id |-> user.user_id],
                                     <<>>, mapping_tuples \o group_tuples)),
                !.f.stage = "commit"]

_disable_user_in_tenant(X) ==
    LET f == X.f
        user == f.user
        found_mappings == {m \in mappings : TenantOrg(m.tenant) = user.org_id}
        mapping_tuples ==
            IF found_mappings = {} THEN <<>>
            ELSE <<relationship_to_user_id_for_group(
                      (CHOOSE m \in found_mappings : TRUE).default_group_uuid, user.user_id)>>
        found == PrincipalsOf(user.org_id, user.username)
        principal == CHOOSE pr \in found : TRUE
        group_tuples ==
            IF found = {} THEN <<>>
            ELSE LET gs == SetToSeq(principal.group)
                 IN  [i \in 1..Len(gs) |-> relationship_to_principal(gs[i], principal)]
    IN  IF user.user_id = NULL THEN Fail(X, "ValueError")
        ELSE [X EXCEPT
                !.f.pdel = {PKey(pr) : pr \in found},
                !.e.events = Append(X.e.events,
                    ReplicationEvent("EXTERNAL_USER_UPDATE", f.call, [user_id |-> user.user_id],
                                     <<>>, mapping_tuples \o group_tuples)),
                !.f.stage = "commit"]

\* The loop of import_bulk_users over users i..n.  cur: the fetched Principal
\* objects by (org_id, username), as mutated so far; touched: the keys appended
\* to principals_to_update.
RECURSIVE BulkLoop(_, _, _, _, _, _)
BulkLoop(f, i, cur, touched, add, remove) ==
    IF i > Len(f.users)
    THEN [exc |-> "none", put |-> {cur[k] : k \in touched}, add |-> add, remove |-> remove]
    ELSE LET user == f.users[i]
             key == <<user.org_id, user.username>>
         IN  IF ~user.is_active \/ user.org_id = NULL
             THEN BulkLoop(f, i + 1, cur, touched, add, remove)
             ELSE LET bootstrapped == CHOOSE b \in Range(f.boots) : b.tenant.org_id = user.org_id
                      changed == key \in DOMAIN cur /\ cur[key].user_id # user.user_id
                      cur1 == IF changed THEN [cur EXCEPT ![key].user_id = user.user_id] ELSE cur
                      touched1 == IF changed THEN touched \cup {key} ELSE touched
                      edits == _default_group_tuple_edits(user, bootstrapped.mapping)
                  IN  IF bootstrapped.mapping = NoMapping
                      THEN [exc |-> "ValueError", put |-> {}, add |-> <<>>, remove |-> <<>>]
                      ELSE IF edits.exc # "none"
                      THEN [exc |-> edits.exc, put |-> {}, add |-> <<>>, remove |-> <<>>]
                      ELSE BulkLoop(f, i + 1, cur1, touched1, add \o edits.add, remove \o edits.remove)

\* As ImportUsers, creating a Principal for each imported user that has none.
ImportUsers_creates_missing(X) ==
    LET f == X.f
        tids == {b.tenant.id : b \in Range(f.boots)}
        usernames == {f.users[i].username : i \in 1..Len(f.users)}
        existing_principals == {pr \in principals : pr.tenant \in tids /\ pr.username \in usernames}
        keys == {<<TenantOrg(pr.tenant), pr.username>> : pr \in existing_principals}
        existing_principal_dict ==
            [k \in keys |-> CHOOSE pr \in existing_principals :
                                <<TenantOrg(pr.tenant), pr.username>> = k]
        r == BulkLoop(f, 1, existing_principal_dict, {}, <<>>, <<>>)
        missing == {u \in Range(f.users) :
                       /\ u.is_active /\ u.org_id # NULL
                       /\ <<u.org_id, u.username>> \notin keys}
    IN  IF r.exc # "none" THEN Fail(X, r.exc)
        ELSE [X EXCEPT
                !.f.pput = r.put \cup
                    {[tenant |-> (CHOOSE b \in Range(f.boots) : b.tenant.org_id = u.org_id).tenant.id,
                      username |-> u.username, user_id |-> u.user_id, group |-> {}] : u \in missing},
                !.e.events = Append(X.e.events,
                    ReplicationEvent("BULK_EXTERNAL_USER_UPDATE", f.call,
                        [num_users |-> Len(f.users),
                         first_user_id |-> IF f.users # <<>> THEN f.users[1].user_id ELSE NULL],
                        r.add, r.remove)),
                !.f.stage = "commit"]

\* import_bulk_users lines 128-178, after the tenants are bootstrapped.
ImportUsers(X) ==
    LET f == X.f
        tids == {b.tenant.id : b \in Range(f.boots)}
        usernames == {f.users[i].username : i \in 1..Len(f.users)}
        existing_principals == {pr \in principals : pr.tenant \in tids /\ pr.username \in usernames}
        keys == {<<TenantOrg(pr.tenant), pr.username>> : pr \in existing_principals}
        existing_principal_dict ==
            [k \in keys |-> CHOOSE pr \in existing_principals :
                                <<TenantOrg(pr.tenant), pr.username>> = k]
        r == BulkLoop(f, 1, existing_principal_dict, {}, <<>>, <<>>)
    IN  IF r.exc # "none" THEN Fail(X, r.exc)
        ELSE [X EXCEPT
                !.f.pput = r.put,
                !.e.events = Append(X.e.events,
                    ReplicationEvent("BULK_EXTERNAL_USER_UPDATE", f.call,
                        [num_users |-> Len(f.users),
                         first_user_id |-> IF f.users # <<>> THEN f.users[1].user_id ELSE NULL],
                        r.add, r.remove)),
                !.f.stage = "commit"]

\* Creation of a tenant's custom platform-default group, once the creator holds
\* the tenant's TenantMapping: the Group row is saved in the same transaction.
SaveDefaultGroup(X) ==
    LET f == X.f IN
    [X EXCEPT !.f.pg = {[uuid |-> NewUuid("cdg", f.call, f.tenant.id), tenant |-> f.tenant.id,
                         platform_default |-> TRUE]},
              !.f.ret = f.boots[1],
              !.f.stage = "commit"]

\* What each public method does once its tenants are bootstrapped.
UserStage(X) ==
    LET f == X.f IN
    CASE f.op \in {"new_bootstrapped_tenant", "bootstrap_tenant"} ->
            [X EXCEPT !.f.ret = f.boots[1], !.f.stage = "commit"]
      [] f.op = "create_default_group" -> SaveDefaultGroup(X)
      [] f.op = "update_user" ->
            IF f.user.is_active THEN UpdateActiveUser(X) ELSE _disable_user_in_tenant(X)
      [] OTHER -> ImportUsers(X)

\* One transaction's run from its current stage until it waits, raises or is
\* ready to commit.
Exec(X) ==
    LET a == IF X.f.stage = "tenancy" THEN Tenancy(X) ELSE X
        b == IF a.f.stage = "tenant_insert" THEN TenantInsert(a) ELSE a
        c == IF b.f.stage = "insert" THEN InsertStage(b) ELSE b
        d == IF c.f.stage = "access" THEN AccessStage(c) ELSE c
    IN  IF d.f.stage = "user" THEN UserStage(d) ELSE d

----------------------------------------------------------------------------
(* Inputs *)

User(username, org_id, user_id, is_active, admin, is_service_account) ==
    [username |-> username, org_id |-> org_id, user_id |-> user_id, is_active |-> is_active,
     admin |-> admin, is_service_account |-> is_service_account]

Alice == User("alice", "o1", "a1", TRUE, FALSE, FALSE)
Bob == User("bob", "o2", "b1", TRUE, FALSE, FALSE)

\* The users update_user is called with.
SingleUsers ==
    {[Alice EXCEPT !.admin = ad, !.is_service_account = sa] : ad \in BOOLEAN, sa \in BOOLEAN}
    \cup {[Alice EXCEPT !.user_id = NULL], [Alice EXCEPT !.is_active = FALSE],
          [Alice EXCEPT !.is_active = FALSE, !.user_id = NULL],
          [Bob EXCEPT !.org_id = NULL], Bob}

\* The batches import_bulk_users is called with.
BulkBatches ==
    { <<>>,
      <<Alice>>,
      <<[Alice EXCEPT !.admin = TRUE], Bob>>,
      <<[Alice EXCEPT !.is_service_account = TRUE]>>,
      <<[Alice EXCEPT !.is_active = FALSE], [Bob EXCEPT !.org_id = NULL]>>,
      <<Bob, [Alice EXCEPT !.user_id = NULL]>>,
      <<[Alice EXCEPT !.user_id = "a2"]>> }

----------------------------------------------------------------------------
(* Actions *)

CallRecord(f) ==
    [op |-> f.op, tenant |-> f.tenant, user |-> f.user, users |-> f.users,
     upsert |-> f.upsert, supplied |-> f.supplied, outcome |-> "running",
     ret |-> NoBootstrapped, start |-> clock, end |-> 0, wrote |-> FALSE, tried |-> {},
     proc |-> f.proc]

Pending(f) == f.pt # {} \/ f.pw # {} \/ f.pm # {} \/ f.pdel # {} \/ f.pput # {} \/ f.pg # {}

\* The committed rows once frame f's transaction commits.
CommitRows(f) ==
    /\ tenants' = tenants \cup f.pt
    /\ workspaces' = workspaces \cup f.pw
    /\ mappings' = mappings \cup f.pm
    /\ groups' = groups \cup f.pg
    /\ principals' = {pr \in principals : PKey(pr) \notin (f.pdel \cup {PKey(q) : q \in f.pput})}
                        \cup f.pput

EndCall(cs, f, outcome) ==
    [cs EXCEPT ![f.call].outcome = outcome, ![f.call].ret = f.ret,
               ![f.call].end = clock + 1, ![f.call].wrote = Pending(f),
               ![f.call].tried = f.tried]

\* Thread p has run to X: it raised (rollback), finished without a write,
\* waits, or holds writes to commit.
Settle(p, X, cs) ==
    /\ events' = X.e.events
    /\ platform_cache' = X.e.pc
    /\ admin_cache' = X.e.ac
    /\ UNCHANGED <<groups, sysPlatform, sysAdmin>>
    /\ IF X.f.stage = "abort"
       THEN /\ txn' = [txn EXCEPT ![p] = Idle]
            /\ calls' = EndCall(cs, X.f, X.f.exc)
            /\ clock' = clock + 1
            /\ UNCHANGED <<tenants, workspaces, mappings, principals>>
       ELSE IF X.f.stage = "commit" /\ ~Pending(X.f)
       THEN /\ txn' = [txn EXCEPT ![p] = Idle]
            /\ calls' = EndCall(cs, X.f, "ok")
            /\ clock' = clock + 1
            /\ UNCHANGED <<tenants, workspaces, mappings, principals>>
       ELSE /\ txn' = [txn EXCEPT ![p] = X.f]
            /\ calls' = [cs EXCEPT ![X.f.call].tried = X.f.tried]
            /\ UNCHANGED <<clock, tenants, workspaces, mappings, principals>>

Env == [events |-> events, pc |-> platform_cache, ac |-> admin_cache]

\* A call starts on an idle thread and runs until it waits, raises or is ready
\* to commit.
BeginWithin(p, f0, limit) ==
    /\ txn[p].stage = "idle"
    /\ Len(calls) < limit
    /\ \E f \in {[f0 EXCEPT !.stage = "tenancy", !.proc = p, !.call = Len(calls) + 1]} :
         \E X \in {Exec([f |-> f, e |-> Env])}, cs \in {Append(calls, CallRecord(f))} :
            Settle(p, X, cs)

\* The second thread is used only while the first is busy.
Begin(p, f0) ==
    /\ p = "p2" => txn["p1"].stage # "idle"
    /\ BeginWithin(p, f0, MaxOps)

new_bootstrapped_tenant(p) ==
    \E org_id \in Orgs :
        Begin(p, [Idle EXCEPT !.op = "new_bootstrapped_tenant", !.tenant.org_id = org_id])

\* The caller passes a Tenant it has loaded, with or without the prefetched
\* platform_default_groups attribute.
bootstrap_tenant(p) ==
    \E row \in tenants, prefetched \in BOOLEAN :
        /\ prefetched => PlatformDefaultGroups(row.id) # <<>>
        /\ Begin(p, [Idle EXCEPT !.op = "bootstrap_tenant",
                                 !.tenant = TenantObj(row, prefetched,
                                     IF prefetched THEN PlatformDefaultGroups(row.id) ELSE <<>>)])

update_user(p) ==
    \E user \in SingleUsers, upsert \in BOOLEAN :
        /\ upsert => user.is_active /\ ~user.is_service_account /\ user.user_id # NULL /\ user.org_id # NULL
        /\ Begin(p, [Idle EXCEPT !.op = "update_user", !.user = user, !.upsert = upsert])

import_bulk_users(p) ==
    \E users \in BulkBatches :
        Begin(p, [Idle EXCEPT !.op = "import_bulk_users", !.users = users])

\* A waiting insert goes on once the transaction it waited for has ended.
Resume(p) ==
    /\ txn[p].stage \in {"tenancy", "tenant_insert", "insert"}
    /\ \E X \in {Exec([f |-> txn[p], e |-> Env])} :
           /\ X.f # txn[p]
           /\ Settle(p, X, calls)

Commit(p) ==
    /\ txn[p].stage = "commit"
    /\ CommitRows(txn[p])
    /\ txn' = [txn EXCEPT ![p] = Idle]
    /\ calls' = EndCall(calls, txn[p], "ok")
    /\ clock' = clock + 1
    /\ UNCHANGED <<sysPlatform, sysAdmin, platform_cache, admin_cache, events>>

----------------------------------------------------------------------------
(* Initial states *)

PublicTenant(org_id) == [id |-> "pub", org_id |-> org_id, tenant_name |-> "public"]
TenantO1 == [id |-> "o1", org_id |-> "o1", tenant_name |-> "orgo1"]
GroupG1 == [uuid |-> "g1", tenant |-> "o1", platform_default |-> FALSE]
GroupCustomDefault == [uuid |-> "gpd", tenant |-> "o1", platform_default |-> TRUE]
PrincipalAlice(user_id) == [tenant |-> "o1", username |-> "alice", user_id |-> user_id, group |-> {"g1"}]

\* The states of the public tenant's two system groups.
PolicyStates ==
    { <<"polP", "polA">>, <<"absent", "polA">>, <<"polP", "absent">>, <<"absent", "absent">>,
      <<"nopolicy", "polA">>, <<"polP", "nopolicy">> }

Init ==
    /\ \E pub_org \in {NULL, "o2"}, o1 \in {"absent", "plain", "custom"}, ps \in PolicyStates :
        /\ pub_org # NULL => ps = <<"polP", "polA">>
        /\ sysPlatform = ps[1]
        /\ sysAdmin = ps[2]
        /\ tenants = {PublicTenant(pub_org)} \cup (IF o1 = "absent" THEN {} ELSE {TenantO1})
        /\ groups = CASE o1 = "absent" -> {}
                      [] o1 = "plain" -> {GroupG1}
                      [] OTHER -> {GroupG1, GroupCustomDefault}
        /\ principals = CASE o1 = "absent" -> {}
                          [] o1 = "plain" -> {PrincipalAlice("a1")}
                          [] OTHER -> {PrincipalAlice(NULL)}
    /\ workspaces = {}
    /\ mappings = {}
    /\ platform_cache = NULL
    /\ admin_cache = NULL
    /\ events = <<>>
    /\ calls = <<>>
    /\ clock = 0
    /\ txn = [p \in Procs |-> Idle]

Next ==
    \E p \in Procs :
        \/ new_bootstrapped_tenant(p)
        \/ bootstrap_tenant(p)
        \/ update_user(p)
        \/ import_bulk_users(p)
        \/ Resume(p)
        \/ Commit(p)

Spec == Init /\ [][Next]_vars

----------------------------------------------------------------------------
(* Concurrent bootstrap of one tenant, with callers that retry *)

\* The last call a caller has made, 0 before its first.
LastCallOf(p) ==
    LET ks == {k \in DOMAIN calls : calls[k].proc = p}
    IN  IF ks = {} THEN 0 ELSE CHOOSE k \in ks : \A j \in ks : j <= k

\* The calls that bootstrap the existing tenant o1 and return it to the caller.
BootstrapRequests ==
    {[Idle EXCEPT !.op = "bootstrap_tenant", !.tenant = TenantObj(TenantO1, FALSE, <<>>)]}
    \cup {[Idle EXCEPT !.op = "update_user", !.user = user] :
              user \in {Alice, [Alice EXCEPT !.admin = TRUE]}}

\* Each caller's first call.
FirstAttempt(p) ==
    /\ LastCallOf(p) = 0
    /\ \E f0 \in BootstrapRequests : BeginWithin(p, f0, MaxAttempts)

\* A caller whose call raised the uniqueness error makes the same call again.
Retry(p) ==
    /\ LastCallOf(p) # 0
    /\ LET c == calls[LastCallOf(p)]
       IN  /\ c.outcome = "IntegrityError"
           /\ BeginWithin(p, [Idle EXCEPT !.op = c.op, !.tenant = c.tenant, !.user = c.user,
                                          !.users = c.users, !.upsert = c.upsert,
                                          !.supplied = c.supplied], MaxAttempts)

\* Tenant o1 exists and is not bootstrapped; the system policies resolve or
\* are absent.
InitRetry ==
    /\ Init
    /\ TenantO1 \in tenants
    /\ \A t \in tenants : t.tenant_name = "public" => t.org_id = NULL
    /\ sysPlatform # "nopolicy"
    /\ sysAdmin # "nopolicy"

NextRetry ==
    \E p \in Procs :
        \/ FirstAttempt(p)
        \/ Retry(p)
        \/ Resume(p)
        \/ Commit(p)

\* The states in which FirstAttempt(p) and Retry(p) can happen: a call that
\* starts always changes the state, so each is the action's ENABLED.
CanFirstAttempt(p) ==
    txn[p].stage = "idle" /\ Len(calls) < MaxAttempts /\ LastCallOf(p) = 0

CanRetry(p) ==
    /\ txn[p].stage = "idle"
    /\ Len(calls) < MaxAttempts
    /\ LastCallOf(p) # 0
    /\ calls[LastCallOf(p)].outcome = "IntegrityError"

\* Every request thread keeps running, and a caller that can retry does.
\* Weak fairness of the two call-starting actions is written out through
\* their enabling conditions.
FairRetry ==
    \A p \in Procs :
        /\ WF_vars(Resume(p))
        /\ WF_vars(Commit(p))
        /\ ([]<>(~CanFirstAttempt(p)) \/ []<><<FirstAttempt(p)>>_vars)
        /\ ([]<>(~CanRetry(p)) \/ []<><<Retry(p)>>_vars)

SpecRetry == InitRetry /\ [][NextRetry]_vars /\ FairRetry

----------------------------------------------------------------------------
(* Workspace updates through the workspace view *)

\* A parent id no workspace has ("cbe9822d-cadb-447d-bc80-8bef773c36ea").
NoSuchWorkspace == "ws-none"

\* The view's answer to PUT workspace-detail with parent_id: 400 when the
\* parent is the workspace itself or is not a workspace of the tenant.
UpdateResponse(w, parent_id) ==
    IF parent_id = w.id THEN "SameParent"
    ELSE IF ~\E x \in workspaces : x.id = parent_id /\ x.tenant = w.tenant THEN "NoSuchParent"
    ELSE "ok"

UpdateRecord(w, parent_id) ==
    [CallRecord([Idle EXCEPT !.op = "update_workspace", !.call = Len(calls) + 1])
        EXCEPT !.outcome = UpdateResponse(w, parent_id), !.end = clock + 1]
    @@ [workspace |-> w, parent_id |-> parent_id]

update_workspace ==
    /\ Len(calls) < MaxOps + MaxUpdates
    /\ \E w \in workspaces, parent_id \in {x.id : x \in workspaces} \cup {NoSuchWorkspace} :
          /\ workspaces' = IF UpdateResponse(w, parent_id) = "ok"
                           THEN (workspaces \ {w}) \cup {[w EXCEPT !.parent_id = parent_id]}
                           ELSE workspaces
          /\ calls' = Append(calls, UpdateRecord(w, parent_id))
    /\ clock' = clock + 1
    /\ UNCHANGED <<tenants, mappings, groups, principals, sysPlatform, sysAdmin,
                   platform_cache, admin_cache, events, txn>>

InitWs ==
    /\ Init
    /\ \A t \in tenants : t.tenant_name = "public" => t.org_id = NULL
    /\ sysPlatform = "polP"
    /\ sysAdmin = "polA"

NextWs ==
    \/ \E p \in Procs :
        \/ new_bootstrapped_tenant(p)
        \/ bootstrap_tenant(p)
        \/ Resume(p)
        \/ Commit(p)
    \/ update_workspace

SpecWs == InitWs /\ [][NextWs]_vars

----------------------------------------------------------------------------
(* Creation of a custom platform-default group, racing with bootstrap *)

\* The creator passes the tenant it acts for; a tenant gets one custom
\* platform-default group.
create_default_group(p) ==
    \E row \in tenants :
        /\ row.tenant_name # "public"
        /\ ~\E g \in groups : g.tenant = row.id /\ g.platform_default
        /\ Begin(p, [Idle EXCEPT !.op = "create_default_group",
                                 !.tenant = TenantObj(row, FALSE, <<>>)])

\* A bootstrap of tenant o1 by one of the service's paths.
bootstrap_o1(p) ==
    \E f0 \in BootstrapRequests \cup {[Idle EXCEPT !.op = "import_bulk_users", !.users = <<Alice>>]} :
        Begin(p, f0)

\* Tenant o1 exists, is not bootstrapped and has no custom default group.
InitGroup ==
    /\ InitRetry
    /\ ~\E g \in groups : g.platform_default

NextGroup ==
    \E p \in Procs :
        \/ create_default_group(p)
        \/ bootstrap_o1(p)
        \/ Resume(p)
        \/ Commit(p)

SpecGroup == InitGroup /\ [][NextGroup]_vars

----------------------------------------------------------------------------
(* The policy store changing under a service instance, and new instances *)

\* What the store can hold for a system group: no group, a group without a
\* policy, or a group with one of two policies.
PlatformStoreStates == {"absent", "nopolicy", "polP", "polP2"}
AdminStoreStates == {"absent", "nopolicy", "polA", "polA2"}

EnvSteps == {k \in DOMAIN calls : calls[k].op \in {"change_policy", "new_instance"}}

EnvRecord(op) ==
    [CallRecord([Idle EXCEPT !.op = op, !.call = Len(calls) + 1])
        EXCEPT !.outcome = "ok", !.end = clock + 1]

\* The public tenant's system groups and their policies are changed in the store.
change_policy ==
    /\ Cardinality(EnvSteps) < MaxEnvSteps
    /\ \/ sysPlatform' \in PlatformStoreStates \ {sysPlatform} /\ sysAdmin' = sysAdmin
       \/ sysAdmin' \in AdminStoreStates \ {sysAdmin} /\ sysPlatform' = sysPlatform
    /\ calls' = Append(calls, EnvRecord("change_policy"))
    /\ clock' = clock + 1
    /\ UNCHANGED <<tenants, workspaces, mappings, groups, principals,
                   platform_cache, admin_cache, events, txn>>

\* V2TenantBootstrapService(replicator) is constructed again, between calls:
\* the two class attributes are None on the new instance.
new_instance ==
    /\ Cardinality(EnvSteps) < MaxEnvSteps
    /\ \A p \in Procs : txn[p].stage = "idle"
    /\ platform_cache' = NULL
    /\ admin_cache' = NULL
    /\ calls' = Append(calls, EnvRecord("new_instance"))
    /\ clock' = clock + 1
    /\ UNCHANGED <<tenants, workspaces, mappings, groups, principals,
                   sysPlatform, sysAdmin, events, txn>>

\* new_bootstrapped_tenant called by the current instance.
bootstrap_new_tenant(p) ==
    \E org_id \in Orgs :
        /\ p = "p2" => txn["p1"].stage # "idle"
        /\ BeginWithin(p, [Idle EXCEPT !.op = "new_bootstrapped_tenant", !.tenant.org_id = org_id],
                       MaxOps + MaxEnvSteps)

\* No tenant but the public one.
InitPolicy ==
    /\ Init
    /\ tenants = {PublicTenant(NULL)}

NextPolicy ==
    \/ \E p \in Procs :
        \/ bootstrap_new_tenant(p)
        \/ Resume(p)
        \/ Commit(p)
    \/ change_policy
    \/ new_instance

SpecPolicy == InitPolicy /\ [][NextPolicy]_vars

----------------------------------------------------------------------------
(* Bulk imports *)

\* Batches with users the import skips next to users it imports, and with
\* users whose Principal exists with another or with no user_id.
ImportBatches ==
    BulkBatches \cup
    { <<[Alice EXCEPT !.is_active = FALSE], Bob>>,
      <<Alice, [Bob EXCEPT !.is_active = FALSE, !.user_id = NULL]>>,
      <<[Bob EXCEPT !.org_id = NULL], [Alice EXCEPT !.user_id = "a2"]>>,
      <<[Alice EXCEPT !.is_active = FALSE, !.user_id = "a2"], [Bob EXCEPT !.username = "alice"]>> }

import_users(p) ==
    \E users \in ImportBatches :
        Begin(p, [Idle EXCEPT !.op = "import_bulk_users", !.users = users])

\* Both system policies resolve; the public tenant has no org id.
InitBulk ==
    /\ InitWs

NextBulk ==
    \E p \in Procs :
        \/ import_users(p)
        \/ Resume(p)
        \/ Commit(p)

SpecBulk == InitBulk /\ [][NextBulk]_vars

----------------------------------------------------------------------------
(* update_user with service accounts, upsert and a supplied BootstrappedTenant *)

UpdateUsers ==
    {Alice, [Alice EXCEPT !.is_service_account = TRUE]}

\* The bootstrapped_tenant argument: none, the result of an earlier call, or
\* such a result or the bare tenant without its mapping.
SuppliedChoices ==
    LET earlier == {calls[j].ret : j \in {i \in DOMAIN calls :
                        calls[i].outcome = "ok" /\ calls[i].ret # NoBootstrapped}}
    IN  {NoBootstrapped} \cup earlier
            \cup {[b EXCEPT !.mapping = NoMapping] : b \in earlier}
            \cup {BootstrappedTenant(TenantObj(t, FALSE, <<>>), NoMapping, NoWorkspace, NoWorkspace) :
                      t \in {u \in tenants : u.org_id = "o1"}}

update_user_with(p) ==
    \E user \in UpdateUsers, upsert \in BOOLEAN, supplied \in SuppliedChoices :
        /\ p = "p2" => txn["p1"].stage # "idle"
        /\ BeginWithin(p, [Idle EXCEPT !.op = "update_user", !.user = user, !.upsert = upsert,
                                       !.supplied = supplied], MaxOps + 1)

NextUpdate ==
    \E p \in Procs :
        \/ update_user_with(p)
        \/ Resume(p)
        \/ Commit(p)

SpecUpdate == InitWs /\ [][NextUpdate]_vars

----------------------------------------------------------------------------
(* update_user and import_bulk_users side by side: the order of the events *)

OrderUsers == {Alice, [Alice EXCEPT !.admin = TRUE], [Alice EXCEPT !.is_active = FALSE]}

OrderBatches ==
    { <<Alice>>,
      <<[Alice EXCEPT !.admin = TRUE], Bob>>,
      <<Bob, [Alice EXCEPT !.user_id = NULL]>> }

update_one(p) ==
    \E user \in OrderUsers, supplied \in SuppliedChoices :
        Begin(p, [Idle EXCEPT !.op = "update_user", !.user = user, !.supplied = supplied])

import_batch(p) ==
    \E users \in OrderBatches :
        Begin(p, [Idle EXCEPT !.op = "import_bulk_users", !.users = users])

NextOrder ==
    \E p \in Procs :
        \/ update_one(p)
        \/ import_batch(p)
        \/ Resume(p)
        \/ Commit(p)

SpecOrder == InitWs /\ [][NextOrder]_vars

----------------------------------------------------------------------------
(* Bootstraps of new and of existing tenants while the system groups change *)

\* bootstrap_tenant called by the current instance on a Tenant row it loaded.
bootstrap_existing_tenant(p) ==
    \E row \in {t \in tenants : t.tenant_name # "public"} :
        /\ p = "p2" => txn["p1"].stage # "idle"
        /\ BeginWithin(p, [Idle EXCEPT !.op = "bootstrap_tenant",
                                       !.tenant = TenantObj(row, FALSE, <<>>)],
                       MaxOps + MaxEnvSteps)

\* A system group of the public tenant that was absent is created with its policy.
create_system_group ==
    /\ Cardinality(EnvSteps) < MaxEnvSteps
    /\ \/ sysPlatform = "absent" /\ sysPlatform' = "polP" /\ sysAdmin' = sysAdmin
       \/ sysAdmin = "absent" /\ sysAdmin' = "polA" /\ sysPlatform' = sysPlatform
    /\ calls' = Append(calls, EnvRecord("change_policy"))
    /\ clock' = clock + 1
    /\ UNCHANGED <<tenants, workspaces, mappings, groups, principals,
                   platform_cache, admin_cache, events, txn>>

NextAbsence ==
    \/ \E p \in Procs :
        \/ bootstrap_new_tenant(p)
        \/ bootstrap_existing_tenant(p)
        \/ Resume(p)
        \/ Commit(p)
    \/ create_system_group

SpecAbsence == InitPolicy /\ [][NextAbsence]_vars

----------------------------------------------------------------------------
(* Properties *)

EventsOf(k) == SelectSeq(events, LAMBDA e : e.call = k)
Precedes(j, k) == calls[j].end # 0 /\ calls[j].end <= calls[k].start
RootsOf(tid) == {w \in workspaces : w.tenant = tid /\ w.type = "ROOT"}
DefaultsOf(tid) == {w \in workspaces : w.tenant = tid /\ w.type = "DEFAULT"}

\* Call j is a bootstrap_tenant call on a tenant other than the public one that
\* has returned, and call k is a bootstrap_tenant call on the same tenant
\* started after it.
TwiceInSequence(j, k) ==
    /\ calls[j].op = "bootstrap_tenant"
    /\ calls[k].op = "bootstrap_tenant"
    /\ calls[j].tenant.id = calls[k].tenant.id
    /\ calls[j].tenant.tenant_name # "public"
    /\ calls[j].outcome = "ok"
    /\ Precedes(j, k)

\* C1: when bootstrap_tenant has returned for a tenant other than the public
\* one and is called again on it, the tenant has exactly one TenantMapping, one
\* ROOT and one DEFAULT workspace; the second call returns the mapping the
\* first returned, writes nothing and makes no replicate() call; the two calls
\* together made exactly one replicate() call (BOOTSTRAP_TENANT) when the first
\* created the mapping.
C1_IdempotentBootstrap ==
    \A j \in DOMAIN calls, k \in DOMAIN calls :
        TwiceInSequence(j, k) =>
            /\ calls[k].outcome = "ok"
            /\ calls[k].ret.mapping = calls[j].ret.mapping
            /\ MappingOf(calls[j].tenant.id) = {calls[j].ret.mapping}
            /\ Cardinality(RootsOf(calls[j].tenant.id)) = 1
            /\ Cardinality(DefaultsOf(calls[j].tenant.id)) = 1
            /\ ~calls[k].wrote
            /\ EventsOf(k) = <<>>
            /\ Len(EventsOf(j)) = (IF calls[j].wrote THEN 1 ELSE 0)
            /\ \A i \in 1..Len(EventsOf(j)) : EventsOf(j)[i].event_type = "BOOTSTRAP_TENANT"

C1_Witness ==
    \E j \in DOMAIN calls, k \in DOMAIN calls : TwiceInSequence(j, k) /\ calls[j].wrote


Ended(k) == calls[k].outcome # "running"

\* Calls j and k overlap in time and each has tried to insert a TenantMapping
\* for tenant tid, having found none.
ConcurrentAttempts(j, k, tid) ==
    /\ j # k
    /\ ~Precedes(j, k)
    /\ ~Precedes(k, j)
    /\ tid \in calls[j].tried \cap calls[k].tried

\* No Workspace or TenantMapping row generated by call k for tenant tid is committed.
NothingCommittedBy(k, tid) ==
    /\ \A w \in workspaces : w.id \notin {NewUuid("root", k, tid), NewUuid("default", k, tid)}
    /\ \A m \in mappings : m.default_admin_group_uuid # NewUuid("dag", k, tid)

\* C2: of two concurrent bootstrap attempts on the same unmapped tenant at most
\* one commits and the tenant never has two TenantMappings; once one has
\* committed, the tenant has exactly its mapping and the other attempt ends in
\* IntegrityError with none of its workspace or mapping rows committed; when
\* neither attempt raises for another reason, exactly one commits.
C2_MutualExclusion ==
    \A j \in DOMAIN calls, k \in DOMAIN calls, tid \in {t.id : t \in tenants} :
        ConcurrentAttempts(j, k, tid) =>
            /\ Cardinality(MappingOf(tid)) <= 1
            /\ calls[j].outcome = "ok" =>
                /\ \A m \in MappingOf(tid) : m.default_admin_group_uuid = NewUuid("dag", j, tid)
                /\ Cardinality(MappingOf(tid)) = 1
                /\ calls[k].outcome \in {"running", "IntegrityError"}
                /\ NothingCommittedBy(k, tid)
            /\ (Ended(j) /\ Ended(k) /\ {calls[j].outcome, calls[k].outcome} \cap {"ValueError", "DoesNotExist"} = {})
                => {calls[j].outcome, calls[k].outcome} = {"ok", "IntegrityError"}

C2_Witness ==
    \E j \in DOMAIN calls, k \in DOMAIN calls, tid \in {t.id : t \in tenants} :
        /\ ConcurrentAttempts(j, k, tid)
        /\ calls[j].op = "bootstrap_tenant"
        /\ calls[k].op = "update_user"
        /\ calls[j].outcome = "ok"
        /\ calls[k].outcome = "IntegrityError"


\* C3: a tenant never has two TenantMappings, and a committed TenantMapping
\* stays in the table unchanged (same tenant, same four identifiers) across
\* every step of every operation.
C3_MappingOneWay ==
    [][/\ \A m \in mappings : m \in mappings'
       /\ \A t \in tenants' : Cardinality({m \in mappings' : m.tenant = t.id}) <= 1]_vars

\* A mapping created by call j is committed and a later update_user or
\* import_bulk_users call on its tenant's organization has ended.
C3_Witness ==
    \E j \in DOMAIN calls, k \in DOMAIN calls, m \in mappings :
        /\ m.default_admin_group_uuid = NewUuid("dag", j, m.tenant)
        /\ Precedes(j, k)
        /\ calls[k].outcome = "ok"
        /\ \/ calls[k].op = "update_user" /\ calls[k].user.org_id = TenantOrg(m.tenant)
           \/ calls[k].op = "import_bulk_users" /\ TenantOrg(m.tenant) \in BulkOrgIds(calls[k].users)

WorkspacesOf(tid) == {w \in workspaces : w.tenant = tid}

\* C4: in every committed state a tenant without a TenantMapping has no
\* workspace, a tenant with one has exactly a parentless ROOT and a DEFAULT
\* whose parent is that ROOT, and every mapping and workspace belongs to a
\* committed tenant.
C4_BootstrapAtomic ==
    /\ \A t \in tenants :
        IF MappingOf(t.id) = {} THEN WorkspacesOf(t.id) = {}
        ELSE \E r \in WorkspacesOf(t.id), d \in WorkspacesOf(t.id) :
                /\ WorkspacesOf(t.id) = {r, d}
                /\ r.type = "ROOT" /\ r.parent_id = NULL
                /\ d.type = "DEFAULT" /\ d.parent_id = r.id
    /\ \A m \in mappings : \E t \in tenants : t.id = m.tenant
    /\ \A w \in workspaces : \E t \in tenants : t.id = w.tenant

\* A call that had written rows has failed while some tenant is bootstrapped.
C4_Witness ==
    /\ mappings # {}
    /\ \E k \in DOMAIN calls : calls[k].wrote /\ calls[k].outcome \in {"ValueError", "IntegrityError"}

\* The tenant resource id the hierarchy tuples of tenant t carry.
TenantResourceId(t) == UserDomain \o "/" \o t.org_id

\* Event e carries bootstrap tuples of tenant t.
BootstrapEventFor(e, t) ==
    /\ e.event_type \in {"BOOTSTRAP_TENANT", "BULK_BOOTSTRAP_TENANT"}
    /\ \E i \in 1..Len(e.add) : e.add[i].rtype = "rbac/tenant" /\ e.add[i].rid = TenantResourceId(t)

Rel(rtype, rid, relation, stype, sid, srel) ==
    [rtype |-> rtype, rid |-> rid, relation |-> relation, stype |-> stype, sid |-> sid, srel |-> srel]

HierarchyTuples(t, r, d) ==
    { Rel("rbac/workspace", d.id, "parent", "rbac/workspace", r.id, NULL),
      Rel("rbac/workspace", r.id, "parent", "rbac/tenant", TenantResourceId(t), NULL),
      Rel("rbac/tenant", TenantResourceId(t), "platform", "rbac/platform", EnvName, NULL) }

BindingTuples(d, binding, role, group) ==
    { Rel("rbac/workspace", d.id, "binding", "rbac/role_binding", binding, NULL),
      Rel("rbac/role_binding", binding, "role", "rbac/role", role, NULL),
      Rel("rbac/role_binding", binding, "subject", "rbac/group", group, "member") }

UserBindingTuples(m, d) ==
    BindingTuples(d, m.default_role_binding_uuid, sysPlatform, m.default_group_uuid)

AdminBindingTuples(m, d) ==
    BindingTuples(d, m.default_admin_role_binding_uuid, sysAdmin, m.default_admin_group_uuid)

Resolvable(grp) == grp \notin {"absent", "nopolicy"}

\* Call k bootstrapped tenant t and its rows are committed.
FreshlyBootstrapped(k, t) ==
    /\ calls[k].outcome = "ok"
    /\ \E m \in MappingOf(t.id) : m.default_admin_group_uuid = NewUuid("dag", k, t.id)

BootstrapEventsOf(k) ==
    SelectSeq(EventsOf(k), LAMBDA e : e.event_type \in {"BOOTSTRAP_TENANT", "BULK_BOOTSTRAP_TENANT"})

\* The tuples of event e whose resource is a workspace, the tenant or a role
\* binding of tenant t.
OwnTuples(e, t, m, r, d) ==
    SelectSeq(e.add, LAMBDA x : x.rid \in {d.id, r.id, TenantResourceId(t),
                                           m.default_role_binding_uuid,
                                           m.default_admin_role_binding_uuid})

\* The tuples of a bootstrap of tenant t: hierarchy, and each binding asked for.
ExpectedTuples(t, m, r, d, with_user, with_admin) ==
    HierarchyTuples(t, r, d)
        \cup (IF with_user THEN UserBindingTuples(m, d) ELSE {})
        \cup (IF with_admin THEN AdminBindingTuples(m, d) ELSE {})

\* Call k emitted one bootstrap event, and the tuples in it for tenant t are
\* exactly the set expected, each once.
EmittedExactly(k, t, with_user, with_admin) ==
    \E m \in MappingOf(t.id), r \in RootsOf(t.id), d \in DefaultsOf(t.id) :
        /\ Len(BootstrapEventsOf(k)) = 1
        /\ LET e == BootstrapEventsOf(k)[1]
               own == OwnTuples(e, t, m, r, d)
               expected == ExpectedTuples(t, m, r, d, with_user, with_admin)
           IN  /\ Range(own) = expected
               /\ Len(own) = Cardinality(expected)
               /\ ~IsBulk(calls[k]) => Len(e.add) = Len(own)
               /\ e.remove = <<>>

\* C6: a committed bootstrap of a tenant without a custom default group, with
\* both system policies resolvable, has emitted one bootstrap event whose add
\* list holds for that tenant exactly 9 tuples: 3 hierarchy, 3 admin binding,
\* 3 user binding, over the persisted workspace ids and the mapping's uuids.
C6_TupleCompleteness ==
    \A k \in DOMAIN calls, t \in tenants :
        /\ FreshlyBootstrapped(k, t)
        /\ PlatformDefaultGroups(t.id) = <<>>
        /\ Resolvable(sysPlatform) /\ Resolvable(sysAdmin)
        => /\ EmittedExactly(k, t, TRUE, TRUE)
           /\ \A m \in MappingOf(t.id), r \in RootsOf(t.id), d \in DefaultsOf(t.id) :
                Cardinality(ExpectedTuples(t, m, r, d, TRUE, TRUE)) = 9

\* A single-tenant call and a bulk call have each bootstrapped such a tenant.
C6_Witness ==
    /\ Resolvable(sysPlatform) /\ Resolvable(sysAdmin)
    /\ \E j \in DOMAIN calls, k \in DOMAIN calls, t \in tenants, u \in tenants :
        /\ FreshlyBootstrapped(j, t) /\ ~IsBulk(calls[j]) /\ PlatformDefaultGroups(t.id) = <<>>
        /\ FreshlyBootstrapped(k, u) /\ IsBulk(calls[k]) /\ PlatformDefaultGroups(u.id) = <<>>

\* C7: a committed bootstrap of a tenant that had a custom platform-default
\* group, on whichever path, has emitted for that tenant the 3 hierarchy and 3
\* admin binding tuples and no user binding tuple.
C7_CustomDefaultGroupSkip ==
    \A k \in DOMAIN calls, t \in tenants :
        /\ FreshlyBootstrapped(k, t)
        /\ PlatformDefaultGroups(t.id) # <<>>
        /\ Resolvable(sysPlatform) /\ Resolvable(sysAdmin)
        => EmittedExactly(k, t, FALSE, TRUE)

\* C8: a bootstrap that finds a system policy missing (its group absent, or the
\* group without a policy) raises no error for it, and once committed has
\* emitted the hierarchy tuples and the binding tuples of the policy found.
C8_PolicyNotFoundNonFatal ==
    \A k \in DOMAIN calls :
        /\ calls[k].tried # {}
        /\ ~Resolvable(sysPlatform) \/ ~Resolvable(sysAdmin)
        => /\ calls[k].outcome # "DoesNotExist"
           /\ \A t \in tenants :
                FreshlyBootstrapped(k, t) /\ PlatformDefaultGroups(t.id) = <<>>
                => EmittedExactly(k, t, Resolvable(sysPlatform), Resolvable(sysAdmin))


MemberTuple(group_uuid, user_id) ==
    Rel("rbac/group", group_uuid, "member", "rbac/principal", UserDomain \o "/" \o user_id, NULL)

\* Call k is an update_user call for an active user that returned.
ActiveUserUpdated(k) ==
    /\ calls[k].op = "update_user"
    /\ calls[k].outcome = "ok"
    /\ calls[k].user.is_active

UserEventsOf(k) ==
    SelectSeq(EventsOf(k), LAMBDA e : e.event_type = "EXTERNAL_USER_UPDATE")

\* The event of call k adds the default-group membership, and adds (admin) or
\* removes (non-admin) the admin-group membership, of the tenant's mapping.
TogglesAdminEdge(k) ==
    LET user == calls[k].user
        e == UserEventsOf(k)[1]
    IN  \E t \in TenantByOrg(user.org_id) : \E m \in MappingOf(t.id) :
            /\ m = calls[k].ret.mapping
            /\ e.add = IF user.admin
                       THEN << MemberTuple(m.default_group_uuid, user.user_id),
                               MemberTuple(m.default_admin_group_uuid, user.user_id) >>
                       ELSE << MemberTuple(m.default_group_uuid, user.user_id) >>
            /\ e.remove = IF user.admin THEN <<>>
                          ELSE << MemberTuple(m.default_admin_group_uuid, user.user_id) >>

\* C9 as stated: update_user for every active user emits one
\* EXTERNAL_USER_UPDATE event that adds the default-group membership and adds
\* or removes the admin-group membership.
C9_AdminToggleEveryActiveUser ==
    \A k \in DOMAIN calls :
        ActiveUserUpdated(k) => Len(UserEventsOf(k)) = 1 /\ TogglesAdminEdge(k)

\* C9: update_user for an active user emits one EXTERNAL_USER_UPDATE event;
\* for a user that is not a service account it adds the default-group
\* membership and adds (admin) or removes (non-admin) the admin-group
\* membership, never removing the default-group one; for a service account
\* its add and remove lists are empty.
C9_AdminToggleSymmetry ==
    \A k \in DOMAIN calls :
        ActiveUserUpdated(k) =>
            /\ Len(UserEventsOf(k)) = 1
            /\ IF calls[k].user.is_service_account
               THEN UserEventsOf(k)[1].add = <<>> /\ UserEventsOf(k)[1].remove = <<>>
               ELSE TogglesAdminEdge(k)
            /\ \A i \in 1..Len(UserEventsOf(k)[1].remove) :
                 UserEventsOf(k)[1].remove[i].rid # calls[k].ret.mapping.default_group_uuid

\* An admin, a non-admin and a service account have each been updated.
C9_Witness ==
    /\ \E k \in DOMAIN calls :
         ActiveUserUpdated(k) /\ calls[k].user.admin /\ ~calls[k].user.is_service_account
    /\ \E k \in DOMAIN calls :
         ActiveUserUpdated(k) /\ ~calls[k].user.admin /\ calls[k].user.is_service_account

\* Call record c is of update_user for an inactive user with its ids set.
DisablesUser(c) ==
    /\ c.op = "update_user"
    /\ ~c.user.is_active
    /\ c.user.org_id # NULL
    /\ c.user.user_id # NULL

\* The remove list rm is the default-group membership of each mapping in ms
\* followed by one membership tuple for each group of the Principals in prs.
RemovesAllEdges(rm, user, ms, prs) ==
    LET gs == UNION {pr.group : pr \in prs}
        first == IF ms = {} THEN 0 ELSE 1
    IN  /\ Len(rm) = first + Cardinality(gs)
        /\ \A m \in ms : rm[1] = MemberTuple(m.default_group_uuid, user.user_id)
        /\ \A g \in gs : \E i \in (first + 1)..Len(rm) :
              /\ rm[i].rtype = "rbac/group" /\ rm[i].rid = g
              /\ rm[i].relation = "member" /\ rm[i].stype = "rbac/principal"
        /\ \A pr \in prs : pr.user_id = user.user_id =>
              \A g \in pr.group : \E i \in (first + 1)..Len(rm) : rm[i] = MemberTuple(g, user.user_id)

\* C10: update_user for an inactive user emits, in the step it runs, one
\* EXTERNAL_USER_UPDATE event with an empty add list whose remove list holds
\* the default-group membership of the tenant's mapping (when the tenant has
\* one, a Principal found or not) and one membership tuple per group of the
\* Principal found; when it returns, the Principal record is gone.
C10_DisableRemovesAllEdges ==
    [][\A k \in DOMAIN calls' :
          DisablesUser(calls'[k]) =>
            LET user == calls'[k].user IN
            /\ calls'[k].outcome \in {"running", "ok"}
            /\ k \notin DOMAIN calls =>
                /\ Len(events') = Len(events) + 1
                /\ LET e == events'[Len(events')]
                   IN  /\ e.call = k
                       /\ e.event_type = "EXTERNAL_USER_UPDATE"
                       /\ e.add = <<>>
                       /\ RemovesAllEdges(e.remove, user,
                              {m \in mappings : TenantOrg(m.tenant) = user.org_id},
                              PrincipalsOf(user.org_id, user.username))
            /\ (calls'[k].outcome = "ok" /\ (k \in DOMAIN calls => calls[k].outcome = "running")) =>
                 \A pr \in principals' :
                    pr.username = user.username => \A t \in tenants' : t.id = pr.tenant => t.org_id # user.org_id
      ]_vars

\* A user of a bootstrapped tenant whose Principal was in one custom group has
\* been disabled: two tuples removed, the Principal gone.
C10_Witness ==
    \E k \in DOMAIN calls :
        /\ DisablesUser(calls[k])
        /\ calls[k].outcome = "ok"
        /\ calls[k].wrote
        /\ MappingOf("o1") # {}
        /\ Len(EventsOf(k)) = 1
        /\ Len(EventsOf(k)[1].remove) = 2
        /\ EventsOf(k)[1].remove[2] = MemberTuple("g1", calls[k].user.user_id)
        /\ PrincipalsOf("o1", "alice") = {}


\* The relations graph after the first n events, each applied in order to an
\* initially empty graph.
RECURSIVE GraphAfter(_)
GraphAfter(n) ==
    IF n = 0 THEN {}
    ELSE (GraphAfter(n - 1) \ Range(events[n].remove)) \cup Range(events[n].add)

\* Every call so far is a returned update_user call on user (username, org_id,
\* user_id), one after the other.
OnlyUpdatesOf(username, org_id, user_id) ==
    /\ calls # <<>>
    /\ \A k \in DOMAIN calls :
        /\ calls[k].op = "update_user"
        /\ calls[k].outcome = "ok"
        /\ calls[k].user.username = username
        /\ calls[k].user.org_id = org_id
        /\ calls[k].user.user_id = user_id
        /\ k > 1 => Precedes(k - 1, k)

\* C11: after a sequence of update_user calls on one user that ends with the
\* user inactive, the graph built from all emitted events holds no membership
\* edge from any group to that user.
C11_MembershipEndsAbsent ==
    /\ OnlyUpdatesOf("alice", "o1", "a1")
    /\ ~calls[Len(calls)].user.is_active
    => \A x \in GraphAfter(Len(events)) :
          ~(x.relation = "member" /\ x.sid = UserDomain \o "/" \o "a1")


\* The tuples of list ts whose subject is the user with this user id.
TuplesOfUser(ts, user_id) ==
    SelectSeq(ts, LAMBDA x : x.stype = "rbac/principal" /\ x.sid = UserDomain \o "/" \o user_id)

BulkUserEventsOf(k) ==
    SelectSeq(EventsOf(k), LAMBDA e : e.event_type = "BULK_EXTERNAL_USER_UPDATE")

\* Call j is update_user, call k import_bulk_users, both returned, and the
\* user of j is one of the batch of k.
SameUserBothPaths(j, k) ==
    /\ ActiveUserUpdated(j)
    /\ calls[k].op = "import_bulk_users"
    /\ calls[k].outcome = "ok"
    /\ \E i \in 1..Len(calls[k].users) : calls[k].users[i] = calls[j].user

\* C12: for an active user with org id and user id, the add and remove tuples
\* import_bulk_users emits for the user are those update_user emits for the
\* same user (same tenant, hence same mapping), service account or not.
C12_BulkBatchEquivalence ==
    \A j \in DOMAIN calls, k \in DOMAIN calls :
        SameUserBothPaths(j, k) =>
            /\ Len(UserEventsOf(j)) = 1 /\ Len(BulkUserEventsOf(k)) = 1
            /\ TuplesOfUser(BulkUserEventsOf(k)[1].add, calls[j].user.user_id)
                 = TuplesOfUser(UserEventsOf(j)[1].add, calls[j].user.user_id)
            /\ TuplesOfUser(BulkUserEventsOf(k)[1].remove, calls[j].user.user_id)
                 = TuplesOfUser(UserEventsOf(j)[1].remove, calls[j].user.user_id)


\* Call record c is of update_user with an input the method rejects: no org
\* id, or an active user without user id.
InvalidUpdateInput(c) ==
    /\ c.op = "update_user"
    /\ c.user.org_id = NULL \/ (c.user.is_active /\ c.user.user_id = NULL)

\* C13: update_user with a null org id, or an active user with a null user
\* id, fails with an input error having performed no database write and
\* emitted no replication event.
C13_InvalidInputBeforeAnyWrite ==
    \A k \in DOMAIN calls :
        InvalidUpdateInput(calls[k]) =>
            /\ calls[k].outcome \in {"running", "ValueError"}
            /\ calls[k].tried = {}
            /\ ~calls[k].wrote
            /\ EventsOf(k) = <<>>


\* C14: when import_bulk_users fails, the step in which it fails commits no
\* change to the Tenant, Workspace, TenantMapping or Principal tables, and no
\* replication event of that call has been emitted.
C14_FailedBulkLeavesNothing ==
    [][\A k \in DOMAIN calls' :
          /\ calls'[k].op = "import_bulk_users"
          /\ calls'[k].outcome \notin {"running", "ok"}
          => /\ \A i \in 1..Len(events') : events'[i].call # k
             /\ (k \notin DOMAIN calls \/ calls[k].outcome = "running")
                  => UNCHANGED <<tenants, workspaces, mappings, principals>>
      ]_vars


\* Call record c is of update_user for an inactive user with an org id and no
\* user id.
DisablesWithoutUserId(c) ==
    /\ c.op = "update_user"
    /\ ~c.user.is_active
    /\ c.user.org_id # NULL
    /\ c.user.user_id = NULL

\* C15: update_user for an inactive user without user id fails in the step it
\* runs with an input error: no Principal is deleted or changed, no group
\* membership is removed and no replication event is emitted.
C15_DisableNeedsUserId ==
    [][\A k \in DOMAIN calls' \ DOMAIN calls :
          DisablesWithoutUserId(calls'[k]) =>
            /\ calls'[k].outcome = "ValueError"
            /\ ~calls'[k].wrote
            /\ UNCHANGED <<events, principals, groups>>
      ]_vars

\* Such a call has failed while the user's Principal, in a group, exists:
\* the Principal is still there.
C15_Witness ==
    \E k \in DOMAIN calls :
        /\ DisablesWithoutUserId(calls[k])
        /\ calls[k].outcome = "ValueError"
        /\ \E pr \in PrincipalsOf("o1", "alice") : pr.group # {}

\* C16: update_user for an inactive user with org id and user id never fails
\* and returns nothing; in the step it runs it emits one EXTERNAL_USER_UPDATE
\* event with an empty add list and the removals derivable from the mapping
\* and the Principal found (none when neither exists); neither that step nor
\* its commit changes the Tenant, TenantMapping or Workspace tables.
C16_DisableNeverBootstraps ==
    [][\A k \in DOMAIN calls' :
          DisablesUser(calls'[k]) =>
            /\ calls'[k].outcome \in {"running", "ok"}
            /\ calls'[k].ret = NoBootstrapped
            /\ calls'[k].tried = {}
            /\ (k \notin DOMAIN calls \/ (calls[k].outcome = "running" /\ calls'[k].outcome = "ok"))
                 => UNCHANGED <<tenants, mappings, workspaces>>
            /\ k \notin DOMAIN calls =>
                /\ Len(events') = Len(events) + 1
                /\ events'[Len(events')].call = k
                /\ events'[Len(events')].event_type = "EXTERNAL_USER_UPDATE"
                /\ events'[Len(events')].add = <<>>
                /\ Len(events'[Len(events')].remove)
                     = Cardinality({m \in mappings : TenantOrg(m.tenant) = calls'[k].user.org_id})
                       + Cardinality(UNION {pr.group :
                             pr \in PrincipalsOf(calls'[k].user.org_id, calls'[k].user.username)})
      ]_vars

\* A user whose organization has no Tenant at all has been disabled: one
\* event with nothing to remove, and still no Tenant, mapping or workspace.
C16_Witness ==
    \E k \in DOMAIN calls :
        /\ DisablesUser(calls[k])
        /\ calls[k].outcome = "ok"
        /\ TenantByOrg(calls[k].user.org_id) = {}
        /\ mappings = {} /\ workspaces = {}
        /\ Len(EventsOf(k)) = 1
        /\ EventsOf(k)[1].add = <<>> /\ EventsOf(k)[1].remove = <<>>


\* C18: the committed state never holds two Tenants with one org id, and a
\* new_bootstrapped_tenant call that ends while a Tenant with its org id is
\* committed fails on the uniqueness of org_id, having emitted nothing, and
\* the step commits no tenant, workspace or mapping.
C18_OneTenantPerOrg ==
    [][/\ \A t \in tenants', u \in tenants' : t.org_id = u.org_id => t = u
       /\ \A k \in DOMAIN calls' :
            /\ calls'[k].op = "new_bootstrapped_tenant"
            /\ calls'[k].outcome # "running"
            /\ k \notin DOMAIN calls \/ calls[k].outcome = "running"
            /\ TenantByOrg(calls'[k].tenant.org_id) # {}
            => /\ calls'[k].outcome = "IntegrityError"
               /\ calls'[k].tried = {}
               /\ \A i \in 1..Len(events') : events'[i].call # k
               /\ UNCHANGED <<tenants, workspaces, mappings>>
      ]_vars

\* new_bootstrapped_tenant has failed for an org id that had a Tenant, after
\* another call created that Tenant.
C18_Witness ==
    \E j \in DOMAIN calls, k \in DOMAIN calls :
        /\ j # k
        /\ calls[j].outcome = "ok" /\ calls[j].wrote
        /\ calls[k].op = "new_bootstrapped_tenant"
        /\ calls[k].outcome = "IntegrityError"
        /\ \E t \in TenantByOrg(calls[k].tenant.org_id) : t.tenant_name # "public"


\* The identifier id of a resource of type type exists in the committed state.
IdExists(type, id) ==
    CASE type = "rbac/workspace" -> \E w \in workspaces : w.id = id
      [] type = "rbac/tenant" -> \E t \in tenants : TenantResourceId(t) = id
      [] type = "rbac/role_binding" ->
            \E m \in mappings : id \in {m.default_role_binding_uuid, m.default_admin_role_binding_uuid}
      [] type = "rbac/group" ->
            \/ \E m \in mappings : id \in {m.default_group_uuid, m.default_admin_group_uuid}
            \/ \E g \in groups : g.uuid = id
      [] type = "rbac/role" -> id \in {sysPlatform, sysAdmin} /\ Resolvable(id)
      [] OTHER -> TRUE

\* C19: once a call has ended, every tuple in the add list of every event it
\* emitted names only workspaces, tenants, role bindings, groups and roles
\* that are in the committed state.
C19_EmittedIdsCommitted ==
    \A k \in DOMAIN calls :
        Ended(k) =>
            \A i \in 1..Len(EventsOf(k)) : \A n \in 1..Len(EventsOf(k)[i].add) :
                LET x == EventsOf(k)[i].add[n]
                IN  IdExists(x.rtype, x.rid) /\ IdExists(x.stype, x.sid)

\* The caller's last call has returned the bootstrapped tenant.
Returned(p) ==
    /\ LastCallOf(p) # 0
    /\ calls[LastCallOf(p)].outcome = "ok"
    /\ calls[LastCallOf(p)].ret.mapping \in mappings

AllReturnedSameMapping ==
    /\ \A p \in Procs : Returned(p)
    /\ \A p, q \in Procs :
          calls[LastCallOf(p)].ret.mapping = calls[LastCallOf(q)].ret.mapping

\* C17: when several callers bootstrap the same tenant concurrently and each
\* one that gets the uniqueness error retries, then under fair scheduling
\* every caller eventually returns a bootstrapped tenant, and all of them
\* return the same committed mapping.
C17_RetryConverges == <>[]AllReturnedSameMapping

\* Both callers were in flight together, one got the uniqueness error,
\* retried, and both have now returned the same mapping.
C17_Witness ==
    /\ AllReturnedSameMapping
    /\ \E j, k \in DOMAIN calls :
          /\ calls[j].proc # calls[k].proc
          /\ calls[j].outcome = "IntegrityError"
          /\ calls[k].outcome = "ok"
          /\ calls[j].start < calls[k].end
          /\ calls[k].start < calls[j].end
          /\ LastCallOf(calls[j].proc) > j

\* Following parent links from w for at most n steps ends at a workspace
\* without a parent.
RECURSIVE ReachesParentless(_, _)
ReachesParentless(w, n) ==
    IF w.parent_id = NULL THEN TRUE
    ELSE IF n = 0 THEN FALSE
    ELSE \E x \in workspaces : x.id = w.parent_id /\ ReachesParentless(x, n - 1)

UserBindingEmittedFor(m, evs) ==
    {n \in DOMAIN evs :
        /\ evs[n].event_type \in {"BOOTSTRAP_TENANT", "BULK_BOOTSTRAP_TENANT"}
        /\ \E tup \in Range(evs[n].add) :
              /\ tup.rtype = "rbac/role_binding"
              /\ tup.rid = m.default_role_binding_uuid
              /\ tup.relation = "subject"}

\* C21: in every interleaving of custom-default-group creation with bootstraps
\* of the same tenant, when a bootstrap commits a new TenantMapping and has
\* emitted the default user role-binding tuples, no custom platform-default
\* group of that tenant was committed before that mapping.
C21_NoCustomGroupBeforeMapping ==
    [][\A m \in mappings' \ mappings :
          UserBindingEmittedFor(m, events') # {}
          => ~\E g \in groups : g.tenant = m.tenant /\ g.platform_default]_vars

\* A bootstrap that committed its mapping with the user binding while a group
\* creation for the same tenant was running, which then lost on the mapping.
C21_Witness ==
    \E j, k \in DOMAIN calls :
        /\ calls[j].op = "create_default_group"
        /\ calls[k].op # "create_default_group"
        /\ calls[j].start < calls[k].end
        /\ calls[k].start < calls[j].end
        /\ calls[k].outcome = "ok"
        /\ calls[j].outcome = "IntegrityError"
        /\ \E m \in mappings :
              /\ m.tenant = calls[j].tenant.id
              /\ UserBindingEmittedFor(m, events) # {}
              /\ \E n \in UserBindingEmittedFor(m, events) : events[n].call = k

TenantIds == Orgs \cup {"pub"}

\* The role ids a bootstrap event binds through the default (kind "drb") or
\* the admin (kind "darb") role binding of the tenants it bootstrapped.
RolesBound(e, kind) ==
    {tup.sid : tup \in {u \in Range(e.add) :
        /\ u.relation = "role"
        /\ u.rid \in {NewUuid(kind, e.call, tid) : tid \in TenantIds}}}

IsBootstrapEvent(e) == e.event_type \in {"BOOTSTRAP_TENANT", "BULK_BOOTSTRAP_TENANT"}

\* cache, store: the instance's cached id and the store's state before the
\* step; used: the role ids the step's bootstrap event binds.
ReadOnce(cache, cache_after, store, used) ==
    /\ cache # NULL => used \subseteq {cache} /\ cache_after = cache
    /\ (cache = NULL /\ used # {}) => used = {store} /\ cache_after = store

\* C22: once a service instance has resolved the platform-default
\* (respectively admin-default) policy id, every later bootstrap by that
\* instance binds that id, whatever the store holds by then, and the cached id
\* stays until a new instance is constructed, and a lookup fails only for an
\* id not yet cached; a new instance starts with nothing cached and binds what
\* the store holds when it bootstraps.
C22_PolicyReadOncePerInstance ==
    [][/\ \A n \in DOMAIN events' \ DOMAIN events :
            IsBootstrapEvent(events'[n]) =>
                /\ ReadOnce(platform_cache, platform_cache', sysPlatform, RolesBound(events'[n], "drb"))
                /\ ReadOnce(admin_cache, admin_cache', sysAdmin, RolesBound(events'[n], "darb"))
       /\ \A k \in DOMAIN calls' :
            (calls'[k].outcome = "DoesNotExist" /\ (k \notin DOMAIN calls \/ calls[k].outcome = "running"))
            => \/ platform_cache = NULL /\ sysPlatform = "nopolicy"
               \/ admin_cache = NULL /\ sysAdmin = "nopolicy"
       /\ platform_cache # NULL => platform_cache' \in {platform_cache, NULL}
       /\ admin_cache # NULL => admin_cache' \in {admin_cache, NULL}
       /\ (platform_cache' = NULL /\ platform_cache # NULL) =>
             /\ calls'[Len(calls')].op = "new_instance"
             /\ Len(calls') = Len(calls) + 1
             /\ admin_cache' = NULL]_vars

\* A bootstrap, then a change of the platform policy in the store, then a
\* second bootstrap by the same instance that binds the id cached by the first.
C22_Witness ==
    \E i, j, k \in DOMAIN calls :
        /\ i < j /\ j < k
        /\ calls[i].op = "new_bootstrapped_tenant" /\ calls[i].outcome = "ok"
        /\ calls[j].op = "change_policy"
        /\ calls[k].op = "new_bootstrapped_tenant" /\ calls[k].outcome = "ok"
        /\ sysPlatform # platform_cache
        /\ \E m, n \in DOMAIN events :
              /\ events[m].call = i /\ events[n].call = k
              /\ RolesBound(events[m], "drb") = {platform_cache}
              /\ RolesBound(events[n], "drb") = {platform_cache}

\* The ids call k generates for tenant t, and the tenant's resource id.
IdsOfCallFor(k, t) ==
    {NewUuid(kind, k, t.id) : kind \in {"root", "default", "dg", "dag", "drb", "darb"}}
        \cup {TenantResourceId(t)}

\* Event e carries each of these tuples or none of them.
AllOrNone(e, tuples) == tuples \subseteq Range(e.add) \/ tuples \cap Range(e.add) = {}

\* C23: a completed import_bulk_users call has made exactly one bootstrap
\* event, of type BULK_BOOTSTRAP_TENANT; for every tenant the call bootstrapped
\* that event carries the three hierarchy tuples and each default-access
\* binding whole, and the call's other event carries none of the tenant's
\* tuples; a tenant of the batch that already had a mapping has no workspace
\* and no mapping made by the call and no tuple in the event.
C23_BulkOneEventNeverSplits ==
    \A k \in DOMAIN calls :
        (calls[k].op = "import_bulk_users" /\ calls[k].outcome = "ok") =>
            /\ Len(BootstrapEventsOf(k)) = 1
            /\ BootstrapEventsOf(k)[1].event_type = "BULK_BOOTSTRAP_TENANT"
            /\ \A t \in {u \in tenants : u.org_id \in BulkOrgIds(calls[k].users)} :
                  LET e == BootstrapEventsOf(k)[1] IN
                  IF t.id \in calls[k].tried
                  THEN \E m \in MappingOf(t.id), r \in RootsOf(t.id), d \in DefaultsOf(t.id) :
                          /\ HierarchyTuples(t, r, d) \subseteq Range(OwnTuples(e, t, m, r, d))
                          /\ Range(OwnTuples(e, t, m, r, d)) \subseteq ExpectedTuples(t, m, r, d, TRUE, TRUE)
                          /\ AllOrNone(e, UserBindingTuples(m, d))
                          /\ AllOrNone(e, AdminBindingTuples(m, d))
                          /\ \A n \in DOMAIN events :
                                (events[n].call = k /\ events[n] # e) =>
                                    /\ OwnTuples(events[n], t, m, r, d) = <<>>
                                    /\ Range(events[n].add) \cap ExpectedTuples(t, m, r, d, TRUE, TRUE) = {}
                  ELSE /\ MappingOf(t.id) # {}
                       /\ \A w \in workspaces : w.id \notin IdsOfCallFor(k, t)
                       /\ \A m \in mappings : m.default_role_binding_uuid \notin IdsOfCallFor(k, t)
                       /\ \A x \in Range(e.add) :
                             /\ x.rid \notin IdsOfCallFor(k, t) /\ x.sid \notin IdsOfCallFor(k, t)
                             /\ \A m \in MappingOf(t.id) :
                                   x.rid \notin {m.default_role_binding_uuid, m.default_admin_role_binding_uuid}

\* A bulk import of users of two tenants, one bootstrapped by an earlier call
\* and one bootstrapped by the import, which emitted its default access.
C23_Witness ==
    \E j, k \in DOMAIN calls :
        /\ Precedes(j, k)
        /\ calls[k].op = "import_bulk_users" /\ calls[k].outcome = "ok"
        /\ \E t, u \in {v \in tenants : v.org_id \in BulkOrgIds(calls[k].users)} :
              /\ FreshlyBootstrapped(j, t)
              /\ FreshlyBootstrapped(k, u)
              /\ u.id \in calls[k].tried /\ t.id \notin calls[k].tried
              /\ Len(BootstrapEventsOf(k)) = 1
              /\ Len(BootstrapEventsOf(k)[1].add) = 9

\* The users of a batch that import_bulk_users skips, and those it imports.
SkippedUser(u) == ~u.is_active \/ u.org_id = NULL
SkippedUsers(users) == {u \in Range(users) : SkippedUser(u)}
ImportedUsers(users) == {u \in Range(users) : ~SkippedUser(u)}

\* Call k ends in this step.
EndsNow(k) ==
    /\ k \in DOMAIN calls'
    /\ k \notin DOMAIN calls \/ calls[k].outcome = "running"
    /\ calls'[k].outcome # "running"

TuplesOfEvent(e) == Range(e.add) \cup Range(e.remove)

\* C24: a batch with inactive users or users without org id does not fail
\* because of them (an import whose other users all have a user id ends ok, or
\* with the uniqueness error of a concurrent bootstrap); a skipped user
\* contributes no add or remove tuple, has no tenant created or bootstrapped
\* for it, and its Principal is neither deleted nor changed.
C24_BulkSkipsWithoutFailing ==
    [][\A k \in DOMAIN calls' :
          (EndsNow(k) /\ calls'[k].op = "import_bulk_users") =>
             LET users == calls'[k].users
                 imp == ImportedUsers(users)
             IN  /\ (\A v \in imp : v.user_id # NULL) => calls'[k].outcome \in {"ok", "IntegrityError"}
                 /\ calls'[k].outcome = "ok" =>
                       \A u \in SkippedUsers(users) :
                          /\ (\A v \in imp : v.user_id # u.user_id) =>
                                \A n \in DOMAIN events' :
                                    events'[n].call = k =>
                                        \A x \in TuplesOfEvent(events'[n]) :
                                            x.sid # user_id_to_principal_resource_id(u.user_id)
                          /\ (\A v \in imp : v.org_id # u.org_id) =>
                                \A t \in tenants' :
                                    t.org_id = u.org_id =>
                                        /\ t \in tenants
                                        /\ t.id \notin calls'[k].tried
                                        /\ \A m \in mappings' : m.tenant = t.id => m \in mappings
                                        /\ \A w \in workspaces' : w.tenant = t.id => w \in workspaces
                          /\ (\A v \in imp : v.org_id # u.org_id \/ v.username # u.username) =>
                                \A pr \in principals :
                                    (pr.username = u.username /\ TenantOrg(pr.tenant) = u.org_id)
                                        => pr \in principals']_vars

\* An import of an inactive user, whose Principal exists in a group of a tenant
\* that is not bootstrapped, next to an active user of another org: it
\* completed, bootstrapped only the other tenant and left the Principal.
C24_Witness ==
    \E k \in DOMAIN calls :
        /\ calls[k].op = "import_bulk_users" /\ calls[k].outcome = "ok"
        /\ calls[k].users = <<[Alice EXCEPT !.is_active = FALSE], Bob>>
        /\ PrincipalAlice("a1") \in principals
        /\ MappingOf("o1") = {}
        /\ MappingOf("o2") # {}
        /\ calls[k].tried = {"o2"}

\* The imported users of a batch that match Principal pr by org id and username.
ImportedFor(users, pr) ==
    {u \in ImportedUsers(users) : u.username = pr.username /\ u.org_id = TenantOrg(pr.tenant)}

ActiveServiceAccountUpdate(c) ==
    /\ c.op = "update_user"
    /\ c.user.is_active /\ c.user.is_service_account
    /\ c.user.org_id # NULL /\ c.user.user_id # NULL

\* C26: update_user on an active service-account user, with either value of
\* upsert, creates and modifies no Principal; when it completes the user's
\* tenant has its TenantMapping and the call has made exactly one
\* EXTERNAL_USER_UPDATE event.
C26_ServiceAccountsGetNoPrincipal ==
    [][\A k \in DOMAIN calls' :
          (EndsNow(k) /\ ActiveServiceAccountUpdate(calls'[k])) =>
             /\ principals' = principals
             /\ calls'[k].outcome = "ok" =>
                   /\ \E t \in tenants' :
                         /\ t.org_id = calls'[k].user.org_id
                         /\ \E m \in mappings' : m.tenant = t.id
                   /\ Cardinality({n \in DOMAIN events' :
                          events'[n].call = k /\ events'[n].event_type = "EXTERNAL_USER_UPDATE"}) = 1]_vars

\* update_user with upsert for a service account whose org had no tenant: the
\* call bootstrapped the tenant, which has no Principal.
C26_Witness ==
    \E k \in DOMAIN calls :
        /\ ActiveServiceAccountUpdate(calls[k])
        /\ calls[k].upsert
        /\ calls[k].supplied = NoBootstrapped
        /\ calls[k].outcome = "ok"
        /\ calls[k].tried = {"o1"}
        /\ MappingOf("o1") # {}
        /\ principals = {}
        /\ Len(UserEventsOf(k)) = 1

\* Call record c is update_user on an active user with an org id, given a
\* BootstrappedTenant by the caller.
SuppliedUpdate(c) ==
    /\ c.op = "update_user"
    /\ c.user.is_active /\ c.user.org_id # NULL
    /\ c.supplied # NoBootstrapped

EventNumbersOf(evs, k, types) ==
    {n \in DOMAIN evs : evs[n].call = k /\ evs[n].event_type \in types}

\* C27: update_user given a BootstrappedTenant without TenantMapping fails with
\* ValueError, makes no EXTERNAL_USER_UPDATE event and changes no Principal;
\* given one with a mapping it creates no Tenant, workspace or TenantMapping,
\* attempts no bootstrap, makes no bootstrap event and returns the object it
\* was given; a BootstrappedTenant that update_user computes itself always
\* carries a mapping.
C27_MissingMappingNeverSwallowed ==
    [][\A k \in DOMAIN calls' :
          EndsNow(k) =>
             LET c == calls'[k] IN
             /\ (SuppliedUpdate(c) /\ c.supplied.mapping = NoMapping) =>
                   /\ c.outcome = "ValueError"
                   /\ EventNumbersOf(events', k, {"EXTERNAL_USER_UPDATE"}) = {}
                   /\ principals' = principals
             /\ (SuppliedUpdate(c) /\ c.supplied.mapping # NoMapping) =>
                   /\ c.tried = {}
                   /\ tenants' = tenants /\ workspaces' = workspaces /\ mappings' = mappings
                   /\ EventNumbersOf(events', k, {"BOOTSTRAP_TENANT", "BULK_BOOTSTRAP_TENANT"}) = {}
                   /\ c.outcome = "ok" /\ c.ret = c.supplied
             /\ (c.op = "update_user" /\ c.user.is_active /\ c.outcome = "ok") =>
                   c.ret.mapping # NoMapping]_vars

\* A call was given the mapping-less tenant and failed, and a later call was
\* given the result of a bootstrapping call and returned it.
C27_Witness ==
    \E i, j, k \in DOMAIN calls :
        /\ SuppliedUpdate(calls[i])
        /\ calls[i].supplied.mapping = NoMapping
        /\ calls[i].upsert
        /\ calls[i].outcome = "ValueError"
        /\ calls[j].outcome = "ok" /\ calls[j].tried = {"o1"}
        /\ SuppliedUpdate(calls[k])
        /\ calls[k].supplied = calls[j].ret
        /\ calls[k].outcome = "ok" /\ calls[k].ret = calls[j].ret
        /\ Len(UserEventsOf(k)) = 1

\* C28: every Tenant row other than the public tenant's (the rows of the
\* initial state are named this way, the others are created by the service)
\* has the display name "org" followed by its org id.
C28_CreatedTenantsNamedOrgId ==
    \A t \in tenants : t.tenant_name # "public" => t.tenant_name = "org" \o t.org_id

\* What the hierarchy builder returned for tenant t: workspaces r and d and
\* the three tuples, in order.
IsHierarchy(w, t) ==
    /\ w.root.type = "ROOT" /\ w.default.type = "DEFAULT"
    /\ w.root.id # NULL /\ w.default.id # NULL /\ w.root.id # w.default.id
    /\ w.default.parent_id = w.root.id
    /\ w.relationships =
          << Rel("rbac/workspace", w.default.id, "parent", "rbac/workspace", w.root.id, NULL),
             Rel("rbac/workspace", w.root.id, "parent", "rbac/tenant", UserDomain \o "/" \o t.org_id, NULL),
             Rel("rbac/tenant", UserDomain \o "/" \o t.org_id, "platform", "rbac/platform", EnvName, NULL) >>

\* Tuples a, b, c are one role binding on a workspace.
IsRoleBinding(a, b, c) ==
    /\ a = Rel("rbac/workspace", a.rid, "binding", "rbac/role_binding", a.sid, NULL)
    /\ b = Rel("rbac/role_binding", a.sid, "role", "rbac/role", b.sid, NULL)
    /\ c = Rel("rbac/role_binding", a.sid, "subject", "rbac/group", c.sid, "member")

IsHierarchyTriple(a, b, c) ==
    /\ a = Rel("rbac/workspace", a.rid, "parent", "rbac/workspace", b.rid, NULL)
    /\ b = Rel("rbac/workspace", b.rid, "parent", "rbac/tenant", c.rid, NULL)
    /\ c = Rel("rbac/tenant", c.rid, "platform", "rbac/platform", EnvName, NULL)

\* C29: the hierarchy builder returns exactly the tuples default -parent->
\* root, root -parent-> tenant <user domain>/<org id>, tenant -platform->
\* platform <environment name>, over the ids of the two workspaces it built,
\* which are not rows of the database while the call runs; the tuples of every
\* bootstrap event fall into consecutive threes, each such a hierarchy or one
\* role binding: workspace -binding-> role_binding, role_binding -role-> role,
\* role_binding -subject-> group with subject relation member.
C29_TupleShapes ==
    /\ \A p \in Procs : \A i \in DOMAIN txn[p].wss :
          /\ IsHierarchy(txn[p].wss[i], txn[p].bt[i])
          /\ {txn[p].wss[i].root, txn[p].wss[i].default} \cap workspaces = {}
          /\ \A w \in workspaces : w.id \notin {txn[p].wss[i].root.id, txn[p].wss[i].default.id}
    /\ \A n \in DOMAIN events :
          IsBootstrapEvent(events[n]) =>
             LET add == events[n].add IN
             /\ Len(add) % 3 = 0
             /\ events[n].remove = <<>>
             /\ \A j \in 1..(Len(add) \div 3) :
                   LET a == add[3 * j - 2]
                       b == add[3 * j - 1]
                       c == add[3 * j]
                   IN  IsHierarchyTriple(a, b, c) \/ IsRoleBinding(a, b, c)

\* A bulk bootstrap of two tenants is ready to commit: its event carries two
\* hierarchies and four role bindings.
C29_Witness ==
    \E p \in Procs :
        /\ txn[p].stage = "commit"
        /\ Len(txn[p].wss) = 2
        /\ \E n \in DOMAIN events :
              /\ events[n].call = txn[p].call
              /\ IsBootstrapEvent(events[n])
              /\ Len(events[n].add) = 18
              /\ IsHierarchyTriple(events[n].add[4], events[n].add[5], events[n].add[6])
              /\ IsRoleBinding(events[n].add[16], events[n].add[17], events[n].add[18])

\* Event e is BULK_EXTERNAL_USER_UPDATE, or the EXTERNAL_USER_UPDATE of an
\* update of an active user (the disable path edits the user's other groups).
IsMembershipEvent(e) ==
    \/ e.event_type = "BULK_EXTERNAL_USER_UPDATE"
    \/ e.event_type = "EXTERNAL_USER_UPDATE" /\ calls[e.call].user.is_active

MembershipTuples(e) == {x \in TuplesOfEvent(e) : x.rtype = "rbac/group" /\ x.relation = "member"}

\* Group g is the default group or the default admin group of the
\* TenantMapping that call k created for tenant tid (committed or pending).
GroupOfMappingCreatedBy(g, k, tid) ==
    \/ g \in {NewUuid("dg", k, tid), NewUuid("dag", k, tid)}
    \/ \E m \in mappings \cup UNION {txn[p].pm : p \in Procs} :
          /\ m.tenant = tid
          /\ m.default_admin_group_uuid = NewUuid("dag", k, tid)
          /\ m.default_group_uuid = g

\* Event b is the bootstrap event of call k and carries the hierarchy call k
\* built for tenant tid.
BootstrapEventOfFor(b, k, tid) ==
    /\ events[b].call = k
    /\ IsBootstrapEvent(events[b])
    /\ \E i \in DOMAIN events[b].add : events[b].add[i].rid = NewUuid("default", k, tid)

\* C30: in the sequence of replicate calls every membership tuple of an
\* EXTERNAL_USER_UPDATE or BULK_EXTERNAL_USER_UPDATE event names a group of a
\* TenantMapping whose creating call made its bootstrap event earlier in the
\* sequence (EXTERNAL_USER_UPDATE taken from updates of active users); within
\* one call the bootstrap event comes before the membership event; every event
\* carries the by-environment partition key.
C30_BootstrapPrecedesMembership ==
    /\ \A n \in DOMAIN events :
          /\ events[n].partition_key = EnvName
          /\ IsMembershipEvent(events[n]) =>
                \A x \in MembershipTuples(events[n]) :
                    \E k \in DOMAIN calls, tid \in TenantIds :
                        /\ GroupOfMappingCreatedBy(x.rid, k, tid)
                        /\ \E b \in 1..(n - 1) : BootstrapEventOfFor(b, k, tid)
    /\ \A a, b \in DOMAIN events :
          (events[a].call = events[b].call /\ IsBootstrapEvent(events[b])
                /\ IsMembershipEvent(events[a])) => b < a

\* One call bootstrapped the tenant and emitted membership tuples for it, and
\* another call emitted membership tuples for the same mapping.
C30_Witness ==
    \E b, m, n \in DOMAIN events :
        /\ b < m /\ m < n
        /\ BootstrapEventOfFor(b, events[b].call, "o1")
        /\ events[m].call = events[b].call
        /\ events[n].call # events[b].call
        /\ IsMembershipEvent(events[m]) /\ IsMembershipEvent(events[n])
        /\ \E x \in MembershipTuples(events[m]) : x.rid = NewUuid("dag", events[b].call, "o1")
        /\ \E x \in MembershipTuples(events[n]) : x.rid = NewUuid("dag", events[b].call, "o1")

\* The events that carry the platform tuple of the tenant with org id org.
BootstrapEventsForOrg(org) ==
    {n \in DOMAIN events :
        /\ IsBootstrapEvent(events[n])
        /\ \E i \in DOMAIN events[n].add :
              /\ events[n].add[i].rtype = "rbac/tenant"
              /\ events[n].add[i].rid = UserDomain \o "/" \o org}

\* C31: over the whole run the bootstrap tuples of a tenant are in at most one
\* bootstrap event, and once the call that made a bootstrap event has ended
\* the workspaces its tuples name are committed Workspace rows.
C31_AtMostOneBootstrapEventPerTenant ==
    /\ \A org \in Orgs : Cardinality(BootstrapEventsForOrg(org)) <= 1
    /\ \A n \in DOMAIN events :
          (IsBootstrapEvent(events[n]) /\ calls[events[n].call].outcome # "running") =>
             \A i \in DOMAIN events[n].add :
                 events[n].add[i].rtype = "rbac/workspace" =>
                    \E w \in workspaces : w.id = events[n].add[i].rid

\* The events of evs with a tuple of a role binding of kind "drb" or "darb"
\* made for tenant tid by any call.
BindingEventsFor(tid, kind, evs) ==
    {n \in DOMAIN evs :
        \E tup \in Range(evs[n].add) :
            /\ tup.rtype = "rbac/role_binding"
            /\ tup.rid \in {NewUuid(kind, k, tid) : k \in 1..(MaxOps + MaxEnvSteps)}}

\* Bootstrap event e holds the whole role binding of kind kind, to role, on
\* the default workspace of each tenant it bootstrapped.
BindsEachTenant(e, kind, group_kind, role) ==
    \A tid \in {e.add[i].rid : i \in {j \in DOMAIN e.add : e.add[j].rtype = "rbac/tenant"}} :
        \E org \in Orgs :
            /\ tid = UserDomain \o "/" \o org
            /\ {Rel("rbac/workspace", NewUuid("default", e.call, org), "binding",
                     "rbac/role_binding", NewUuid(kind, e.call, org), NULL),
                 Rel("rbac/role_binding", NewUuid(kind, e.call, org), "role", "rbac/role", role, NULL),
                 Rel("rbac/role_binding", NewUuid(kind, e.call, org), "subject",
                     "rbac/group", NewUuid(group_kind, e.call, org), "member")}
                   \subseteq Range(e.add)

\* Event e has no role-binding tuple of kind kind.
NoBindingIn(e, kind) ==
    \A tid \in TenantIds : BindingEventsFor(tid, kind, <<e>>) = {}

\* One half of default access at a step that emits bootstrap event e: cache
\* and store are the instance's cached id and the system group before the step.
NotCachedWhenAbsent(e, kind, group_kind, cache, cache_after, store) ==
    /\ (cache = NULL /\ store = "absent") =>
          /\ NoBindingIn(e, kind)
          /\ cache_after = NULL
    /\ (cache = NULL /\ Resolvable(store)) =>
          /\ BindsEachTenant(e, kind, group_kind, store)
          /\ cache_after = store

\* C32: a bootstrap made while a system group is absent omits that half of
\* default access and leaves nothing cached on the instance, so that the next
\* bootstrap by the same instance, once the group and its policy exist, binds
\* the policy with the three role-binding tuples for the tenant it
\* bootstraps; a tenant whose mapping is committed gets no role-binding tuple
\* in any later event, so one bootstrapped during the absence never gets them.
C32_FailedResolutionNotCached ==
    [][/\ \A n \in DOMAIN events' \ DOMAIN events :
            IsBootstrapEvent(events'[n]) =>
                /\ NotCachedWhenAbsent(events'[n], "drb", "dg",
                                       platform_cache, platform_cache', sysPlatform)
                /\ NotCachedWhenAbsent(events'[n], "darb", "dag",
                                       admin_cache, admin_cache', sysAdmin)
       /\ \A m \in mappings : \A kind \in {"drb", "darb"} :
            BindingEventsFor(m.tenant, kind, events') = BindingEventsFor(m.tenant, kind, events)]_vars

\* Tenant o1 was bootstrapped while the platform group was absent, the group
\* and its policy were then created, and the same instance bootstrapped
\* tenant o2 with the user role binding; o1 still has none.
C32_Witness ==
    \E i, j, k \in DOMAIN calls :
        /\ i < j /\ j < k
        /\ calls[i].op = "new_bootstrapped_tenant" /\ calls[i].outcome = "ok"
        /\ calls[i].tenant.org_id = "o1"
        /\ calls[j].op = "change_policy"
        /\ calls[k].op = "new_bootstrapped_tenant" /\ calls[k].outcome = "ok"
        /\ calls[k].tenant.org_id = "o2"
        /\ Resolvable(sysPlatform)
        /\ platform_cache = sysPlatform
        /\ BindingEventsFor("o1", "drb", events) = {}
        /\ BindingEventsFor("o1", "darb", events) # {}
        /\ \E n \in DOMAIN events :
              /\ events[n].call = k
              /\ BindsEachTenant(events[n], "drb", "dg", sysPlatform)
              /\ BindingEventsFor("o2", "drb", events) = {n}

\* The uuids of the platform_default groups of tenant tid.
CustomDefaultGroupsOf(tid) == {g.uuid : g \in {h \in groups : h.tenant = tid /\ h.platform_default}}

\* The mappings import call k created.
MappingsCreatedBy(k) ==
    {m \in mappings : m.default_admin_group_uuid = NewUuid("dag", k, m.tenant)}

\* C33: the TenantMapping a completed import_bulk_users call created for a
\* tenant with a platform_default group has that group's uuid as its default
\* group, the call's BULK_EXTERNAL_USER_UPDATE event adds each imported user
\* of the tenant to that group and names no generated default group for the
\* tenant; for a tenant without such a group the default group uuid is the
\* one generated by the call.
C33_BulkAdoptsCustomDefaultGroup ==
    \A k \in DOMAIN calls :
        (calls[k].op = "import_bulk_users" /\ calls[k].outcome = "ok") =>
            \A m \in MappingsCreatedBy(k) :
                /\ IF CustomDefaultGroupsOf(m.tenant) # {}
                   THEN m.default_group_uuid \in CustomDefaultGroupsOf(m.tenant)
                   ELSE m.default_group_uuid = NewUuid("dg", k, m.tenant)
                /\ Len(BulkUserEventsOf(k)) = 1
                /\ \A u \in ImportedUsers(calls[k].users) :
                      u.org_id = m.tenant =>
                         MemberTuple(m.default_group_uuid, u.user_id)
                             \in Range(BulkUserEventsOf(k)[1].add)
                /\ CustomDefaultGroupsOf(m.tenant) # {} =>
                      \A x \in TuplesOfEvent(BulkUserEventsOf(k)[1]) :
                          x.rid # NewUuid("dg", k, m.tenant)

\* One import bootstrapped o1, which has the custom default group, and o2,
\* which has none, and added alice to the custom group and bob to a generated
\* one.
C33_Witness ==
    \E k \in DOMAIN calls :
        /\ calls[k].op = "import_bulk_users" /\ calls[k].outcome = "ok"
        /\ \E m1, m2 \in MappingsCreatedBy(k) :
              /\ m1.tenant = "o1" /\ m2.tenant = "o2"
              /\ m1.default_group_uuid = GroupCustomDefault.uuid
              /\ m2.default_group_uuid = NewUuid("dg", k, "o2")
              /\ MemberTuple(GroupCustomDefault.uuid, "a1") \in Range(BulkUserEventsOf(k)[1].add)
              /\ MemberTuple(NewUuid("dg", k, "o2"), "b1") \in Range(BulkUserEventsOf(k)[1].add)
====
